---- MODULE Spec2Model ----
(***************************************************************************)
(* Model of the computational core of the real-estate analytics program:  *)
(* FinancialCalculator (src/src/financial_calculator.py) and RiskAssessor *)
(* (src/src/risk_assessment.py).                                          *)
(*                                                                         *)
(* Numbers.  The program computes with Python floats (IEEE-754 binary64). *)
(* A finite float is modelled exactly as the record [s, m, e] that stands *)
(* for s * m * 2^e, with s in {-1, 0, 1} and m an odd natural number held *)
(* as a little-endian sequence of 15-bit limbs (TLC integers are 32 bits  *)
(* wide).  Every arithmetic operator computes the exact result and rounds *)
(* it to 53 significant bits (fewer in the subnormal range), ties to      *)
(* even, as the hardware does; a result beyond the largest float becomes  *)
(* an infinity, and infinities combine to NaN as in IEEE-754.  The sign   *)
(* of zero is not modelled.  Python integers of the size that occurs here *)
(* behave as the floats of the same value and are modelled as such.       *)
(***************************************************************************)
EXTENDS Integers, Sequences, FiniteSets, Bags, TLC

\* pc, op, args, result: a call of a method, its arguments and its outcome;
\* obj: the fields of the object the method is called on (its self);
\* all_cash_flows: the series calculate_irr last built for np.irr
VARIABLES pc, op, args, result, obj, all_cash_flows

vars == <<pc, op, args, result, obj, all_cash_flows>>

(***************************************************************************)
(* Natural numbers of arbitrary size: little-endian limb sequences with   *)
(* no leading zero limb (zero is the empty sequence).  The operators are  *)
(* written without recursion over the limbs: carries and borrows are      *)
(* given by their look-ahead formulas.  A value that is used more than    *)
(* once is passed on as an operator argument rather than named in a LET,  *)
(* so that it is computed once; the operators begin with their special    *)
(* cases (a zero operand, an empty sequence), which also makes the        *)
(* operands known before the general case is entered.                     *)
(***************************************************************************)
LimbBits == 15

Base == 2 ^ LimbBits

MantissaBits == 53

\* the sum of F(i) over the finite set S, for F(i) >= 0
SumOver(S, F(_)) == BagCardinality([i \in S |-> F(i) + 1]) - Cardinality(S)

Limb(a, i) == IF 1 <= i /\ i <= Len(a) THEN a[i] ELSE 0

\* a without its leading zero limbs
BNTrim(a) ==
    SubSeq(a, 1, CHOOSE i \in 0..Len(a) :
                     (i = 0 \/ a[i] # 0) /\ \A j \in (i + 1)..Len(a) : a[j] = 0)

BNFromInt(n) == BNTrim(<<n % Base, (n \div Base) % Base, n \div (Base * Base)>>)

\* the value of a < 2^30 as an integer
BNToInt(a) == Limb(a, 1) + Limb(a, 2) * Base

BNAdd(a, b) ==
    IF a = <<>> THEN b
    ELSE IF b = <<>> THEN a
    ELSE
    LET n        == (IF Len(a) > Len(b) THEN Len(a) ELSE Len(b)) + 1
        g(j)     == Limb(a, j) + Limb(b, j)
        carry(i) == \E j \in 1..(i - 1) :
                        g(j) >= Base /\ \A k \in (j + 1)..(i - 1) : g(k) = Base - 1
    IN  BNTrim([i \in 1..n |-> (g(i) + IF carry(i) THEN 1 ELSE 0) % Base])

\* a - b for a >= b
BNSub(a, b) ==
    IF b = <<>> THEN a
    ELSE
    LET borrow(i) == \E j \in 1..(i - 1) :
                         a[j] < Limb(b, j) /\ \A k \in (j + 1)..(i - 1) : a[k] = Limb(b, k)
    IN  BNTrim([i \in 1..Len(a) |->
                  (a[i] - Limb(b, i) - (IF borrow(i) THEN 1 ELSE 0) + Base) % Base])

\* -1, 0, 1 as a < b, a = b, a > b
BNCmp(a, b) ==
    IF a = b THEN 0
    ELSE IF Len(a) # Len(b) THEN (IF Len(a) < Len(b) THEN -1 ELSE 1)
    ELSE IF \E i \in 1..Len(a) : a[i] < b[i] /\ \A k \in (i + 1)..Len(a) : a[k] = b[k]
         THEN -1 ELSE 1

\* a * d for 0 <= d < Base
BNMulSmall(a, d) ==
    IF a = <<>> \/ d = 0 THEN <<>>
    ELSE IF d = 1 THEN a
    ELSE
    BNAdd(BNTrim([i \in 1..Len(a) |-> (a[i] * d) % Base]),
          BNTrim(<<0>> \o [i \in 1..Len(a) |-> (a[i] * d) \div Base]))

\* the number with the column sums cols (each below 2^30), column k
\* weighing Base^(k-1)
BNFromColumns(cols) ==
    IF cols = <<>> THEN <<>>
    ELSE
    BNAdd(BNTrim([k \in 1..Len(cols) |-> cols[k] % Base]),
          BNTrim(<<0>> \o [k \in 1..Len(cols) |-> cols[k] \div Base]))

\* the column sums of the schoolbook product of a and b: the low halves of
\* the limb products of column k and the high halves of those of column k - 1
BNMulColumns(a, b) ==
    LET pairs(k) == {i \in 1..Len(a) : 1 <= k + 1 - i /\ k + 1 - i <= Len(b)}
        col(k)   == LET lo(i) == (a[i] * b[k + 1 - i]) % Base
                        hi(i) == (a[i] * b[k - i]) \div Base
                    IN  SumOver(pairs(k), lo) + SumOver(pairs(k - 1), hi)
    IN  SubSeq([k \in 1..(Len(a) + Len(b)) |-> col(k)], 1, Len(a) + Len(b))

BNMul(a, b) ==
    IF a = <<>> \/ b = <<>> THEN <<>>
    ELSE IF Len(a) = 1 THEN BNMulSmall(b, a[1])
    ELSE IF Len(b) = 1 THEN BNMulSmall(a, b[1])
    ELSE BNFromColumns(BNMulColumns(a, b))

\* the number of bits of 0 <= x < Base
BitLenSmall(x) == CHOOSE k \in 0..LimbBits : x < 2 ^ k /\ (k = 0 \/ 2 ^ (k - 1) <= x)

BNBitLen(a) ==
    IF a = <<>> THEN 0 ELSE LimbBits * (Len(a) - 1) + BitLenSmall(a[Len(a)])

Zeros(k) == [i \in 1..k |-> 0]

\* a * 2^k
BNShl(a, k) ==
    IF a = <<>> THEN <<>>
    ELSE Zeros(k \div LimbBits) \o BNMulSmall(a, 2 ^ (k % LimbBits))

\* floor(a / 2^k)
BNShr(a, k) ==
    LET q == k \div LimbBits
        r == k % LimbBits
        n == Len(a) - q
    IN  IF n <= 0 THEN <<>>
        ELSE BNTrim([i \in 1..n |->
                       a[q + i] \div 2 ^ r + (Limb(a, q + i + 1) % 2 ^ r) * 2 ^ (LimbBits - r)])

BNIsOdd(a) == a # <<>> /\ a[1] % 2 = 1

\* number of trailing zero bits of a # 0
TrailingZerosSmall(x) == CHOOSE k \in 0..(LimbBits - 1) : x % 2 ^ k = 0 /\ x % 2 ^ (k + 1) # 0

LowestLimb(a) == CHOOSE i \in 1..Len(a) : a[i] # 0 /\ \A j \in 1..(i - 1) : a[j] = 0

BNTrailingZeros(a) == LimbBits * (LowestLimb(a) - 1) + TrailingZerosSmall(a[LowestLimb(a)])

\* Long division, ChunkBits quotient bits at a time.  For st = <<q, r>> with
\* r < d and d of at least 16 bits, the pair <<q', r'>> with
\* (q * d + r) * 2^ChunkBits = q' * d + r' and r' < d.  The digit is
\* estimated from the leading 16 bits of d (at most 2 too small) and corrected.
ChunkBits == 14

\* the digit est corrected: r0 = rs - est * d is below 3 * d
DivCorrect(q, r0, d, est) ==
    IF BNCmp(r0, d) < 0 THEN <<BNAdd(q, BNFromInt(est)), r0>>
    ELSE IF BNCmp(r0, BNShl(d, 1)) < 0 THEN <<BNAdd(q, BNFromInt(est + 1)), BNSub(r0, d)>>
    ELSE <<BNAdd(q, BNFromInt(est + 2)), BNSub(r0, BNShl(d, 1))>>

DivDigit(q, rs, d, est) == DivCorrect(q, BNSub(rs, BNMulSmall(d, est)), d, est)

DivEstimate(q, rs, d, sh) ==
    DivDigit(q, rs, d, BNToInt(BNShr(rs, sh)) \div (BNToInt(BNShr(d, sh)) + 1))

DivChunk(st, d) ==
    IF st[2] = <<>> THEN <<BNShl(st[1], ChunkBits), st[2]>>
    ELSE DivEstimate(BNShl(st[1], ChunkBits), BNShl(st[2], ChunkBits), d,
                     BNBitLen(d) - (LimbBits + 1))

(***************************************************************************)
(* binary64 values and their arithmetic                                   *)
(***************************************************************************)
FZero == [s |-> 0, m |-> <<>>, e |-> 0]

\* the infinities and NaN: records with no mantissa and e = 1
FInf(s) == [s |-> s, m |-> <<>>, e |-> 1]

FNaN == [s |-> 0, m |-> <<>>, e |-> 1]

IsNaN(x) == x = FNaN

IsInf(x) == x.m = <<>> /\ x.s # 0

\* floats end below 2^MaxTop; their lowest bit weighs at least 2^MinExp
MaxTop == 1024

MinExp == -1074

\* the float s * m * 2^e for m of at most 53 significant bits
Canon(s, m, e) ==
    IF m = <<>> \/ s = 0 THEN FZero
    ELSE IF e + BNBitLen(m) > MaxTop THEN FInf(s)
    ELSE [s |-> s, m |-> BNShr(m, BNTrailingZeros(m)), e |-> e + BNTrailingZeros(m)]

\* the float nearest to s * (m + f) * 2^e, ties to even, where 0 <= f < 1
\* and f # 0 exactly when sticky
\* q rounded up or not: c compares the part cut off with one half
RoundUp(s, q, e, c, sticky) ==
    Canon(s, IF c > 0 \/ (c = 0 /\ (sticky \/ BNIsOdd(q))) THEN BNAdd(q, <<1>>) ELSE q, e)

\* m cut by k bits to q
RoundCut(s, m, q, e, k, sticky) ==
    RoundUp(s, q, e + k, BNCmp(BNSub(m, BNShl(q, k)), BNShl(<<1>>, k - 1)), sticky)

\* the number of low bits of m * 2^e that a float cannot hold
CutBits(m, e) ==
    IF BNBitLen(m) - MantissaBits > MinExp - e THEN BNBitLen(m) - MantissaBits
    ELSE MinExp - e

RoundF(s, m, e, sticky) ==
    IF m = <<>> THEN FZero
    ELSE IF CutBits(m, e) <= 0 THEN Canon(s, m, e)
    ELSE RoundCut(s, m, BNShr(m, CutBits(m, e)), e, CutBits(m, e), sticky)

FromInt(n) ==
    IF n = 0 THEN FZero
    ELSE IF n < 0 THEN Canon(-1, BNFromInt(-n), 0)
    ELSE Canon(1, BNFromInt(n), 0)

FNeg(x) == [x EXCEPT !.s = -x.s]

FAbs(x) == [x EXCEPT !.s = IF x.s = 0 THEN 0 ELSE 1]

\* -1, 0, 1 as |x| < |y|, |x| = |y|, |x| > |y| for x, y # 0
FCmpMag(x, y) ==
    IF IsInf(x) THEN (IF IsInf(y) THEN 0 ELSE 1)
    ELSE IF IsInf(y) THEN -1
    ELSE IF x.e < y.e THEN BNCmp(x.m, BNShl(y.m, y.e - x.e))
    ELSE BNCmp(BNShl(x.m, x.e - y.e), y.m)

\* -1, 0, 1 as x < y, x = y, x > y for x, y other than NaN
FCmp(x, y) ==
    IF x.s # y.s THEN (IF x.s < y.s THEN -1 ELSE 1)
    ELSE IF x.s = 0 THEN 0
    ELSE x.s * FCmpMag(x, y)

\* the comparisons of Python: every comparison with NaN is false
FLt(x, y) == ~IsNaN(x) /\ ~IsNaN(y) /\ FCmp(x, y) < 0

FLe(x, y) == ~IsNaN(x) /\ ~IsNaN(y) /\ FCmp(x, y) <= 0

FGt(x, y) == ~IsNaN(x) /\ ~IsNaN(y) /\ FCmp(x, y) > 0

FGe(x, y) == ~IsNaN(x) /\ ~IsNaN(y) /\ FCmp(x, y) >= 0

\* the position just above the leading bit of x # 0
FTop(x) == x.e + BNBitLen(x.m)

GuardBits == MantissaBits + 3

\* sx * mx * 2^lo + sy * my * 2^lo, rounded
AddAligned(sx, mx, sy, my, lo) ==
    IF sx = sy THEN RoundF(sx, BNAdd(mx, my), lo, FALSE)
    ELSE IF mx = my THEN FZero
    ELSE IF BNCmp(mx, my) > 0 THEN RoundF(sx, BNSub(mx, my), lo, FALSE)
    ELSE RoundF(sy, BNSub(my, mx), lo, FALSE)

\* an operand more than GuardBits below the other does not change the sum
FAdd(x, y) ==
    IF IsNaN(x) \/ IsNaN(y) THEN FNaN
    ELSE IF IsInf(x) THEN (IF IsInf(y) /\ y.s # x.s THEN FNaN ELSE x)
    ELSE IF IsInf(y) THEN y
    ELSE IF x.s = 0 THEN y
    ELSE IF y.s = 0 THEN x
    ELSE IF FTop(y) < FTop(x) - GuardBits THEN x
    ELSE IF FTop(x) < FTop(y) - GuardBits THEN y
    ELSE IF x.e < y.e THEN AddAligned(x.s, x.m, y.s, BNShl(y.m, y.e - x.e), x.e)
    ELSE AddAligned(x.s, BNShl(x.m, x.e - y.e), y.s, y.m, y.e)

FSub(x, y) == FAdd(x, FNeg(y))

FMul(x, y) ==
    IF IsNaN(x) \/ IsNaN(y) THEN FNaN
    ELSE IF IsInf(x) \/ IsInf(y) THEN (IF x.s * y.s = 0 THEN FNaN ELSE FInf(x.s * y.s))
    ELSE IF x.s = 0 \/ y.s = 0 THEN FZero
    ELSE RoundF(x.s * y.s, BNMul(x.m, y.m), x.e + y.e, FALSE)

\* the quotient is developed to 53 + 3 bits, in four chunks
QuotientBits == 4 * ChunkBits

\* the float nearest to s * (mx * 2^ex) / (my * 2^ey), for mx, my # 0;
\* inexact says that the operands stand for values cut off below
\* the quotient qr = <<q, r>> rounded
QuotientRounded(s, qr, e, inexact) == RoundF(s, qr[1], e, inexact \/ qr[2] # <<>>)

\* ax / ay for ax, ay of the same bit length, of at least 53 bits
QuotientAligned(s, ax, ay, e, inexact) ==
    QuotientRounded(s,
        DivChunk(DivChunk(DivChunk(DivChunk(
            IF BNCmp(ax, ay) >= 0 THEN <<(<<1>>), BNSub(ax, ay)>> ELSE <<(<<>>), ax>>,
            ay), ay), ay), ay),
        e - QuotientBits, inexact)

RoundQuotient(s, mx, ex, my, ey, inexact) ==
    LET lx == BNBitLen(mx)
        ly == BNBitLen(my)
        l  == IF lx > ly THEN (IF lx > MantissaBits THEN lx ELSE MantissaBits)
                         ELSE (IF ly > MantissaBits THEN ly ELSE MantissaBits)
    IN  QuotientAligned(s, BNShl(mx, l - lx), BNShl(my, l - ly),
                        (ex - (l - lx)) - (ey - (l - ly)), inexact)

\* x / y for y # 0
FDiv(x, y) ==
    IF IsNaN(x) \/ IsNaN(y) THEN FNaN
    ELSE IF IsInf(x) THEN (IF IsInf(y) THEN FNaN ELSE FInf(x.s * y.s))
    ELSE IF IsInf(y) \/ x.s = 0 THEN FZero
    ELSE RoundQuotient(x.s * y.s, x.m, x.e, y.m, y.e, FALSE)

\* Working precision of pow: products are cut to this many bits, so the
\* power is exact when it fits and otherwise within 2^-120 of the true
\* value (relative) before the final rounding to 53 bits.
PowBits == 8 * LimbBits + 8

\* <<m, e, cut>>:  m * 2^e cut to PowBits bits; cut says bits were dropped
CutTo(m, e, cut) ==
    IF m = <<>> THEN <<m, e, cut>>
    ELSE
    LET k == BNBitLen(m) - PowBits
    IN  IF k <= 0 THEN <<m, e, cut>>
        ELSE <<BNShr(m, k), e + k, cut \/ BNTrailingZeros(m) < k>>

\* h squared, times m * 2^e when odd, for h = <<m, e, cut>>
PowTimes(sq, m, e, odd) ==
    IF sq[1] = <<>> THEN sq
    ELSE IF odd THEN CutTo(BNMul(sq[1], m), sq[2] + e, sq[3]) ELSE sq

PowStep(h, m, e, odd) ==
    IF h[1] = <<>> THEN h
    ELSE PowTimes(CutTo(BNMul(h[1], h[1]), 2 * h[2], h[3]), m, e, odd)

\* (m * 2^e)^n for n >= 0 by repeated squaring, as <<m, e, cut>>
RECURSIVE PowCut(_, _, _)
PowCut(m, e, n) ==
    IF n = 0 THEN <<(<<1>>), 0, FALSE>>
    ELSE PowStep(PowCut(m, e, n \div 2), m, e, n % 2 = 1)

\* x ** n for an integer n and x # 0
\* the power p = <<m, e, cut>> of the magnitude, or its reciprocal, rounded
PowRounded(sgn, p, n) ==
    IF n >= 0 THEN RoundF(sgn, p[1], p[2], p[3])
    ELSE RoundQuotient(sgn, <<1>>, 0, p[1], p[2], p[3])

FPow(x, n) ==
    PowRounded(IF x.s < 0 /\ n % 2 = 1 THEN -1 ELSE 1,
               PowCut(x.m, x.e, IF n >= 0 THEN n ELSE -n), n)

FMin(x, y) == IF FLt(y, x) THEN y ELSE x

FMax(x, y) == IF FGt(y, x) THEN y ELSE x

\* the float written p/q in decimal notation, e.g. Dec(15, 100) for 0.15
Dec(p, q) == FDiv(FromInt(p), FromInt(q))

(***************************************************************************)
(* Float constants of the program text                                    *)
(***************************************************************************)
f_0 == FZero

f_1 == FromInt(1)

f_10 == FromInt(10)

f_12 == FromInt(12)

f_0_05 == Dec(5, 100)

f_0_07 == Dec(7, 100)

f_0_08 == Dec(8, 100)

f_0_1 == Dec(1, 10)

f_0_15 == Dec(15, 100)

f_0_25 == Dec(25, 100)

f_0_3 == Dec(3, 10)

f_0_5 == Dec(5, 10)

f_0_7 == Dec(7, 10)

f_0_8 == Dec(8, 10)

f_1_2 == Dec(12, 10)

f_1_5 == Dec(15, 10)

f_2_5 == Dec(25, 10)

(***************************************************************************)
(* Outcomes of a call: a returned value or a raised exception             *)
(***************************************************************************)
Return(v) == [kind |-> "return", value |-> v]

Raise(exc) == [kind |-> "raise", exc |-> exc]

NoResult == [kind |-> "none"]

\* a dict is a function on its keys; dict.get(key, default)
Get(d, key, default) == IF key \in DOMAIN d THEN d[key] ELSE default

EmptyDict == [k \in {} |-> 0]

\* the dicts of D, and each of them with the key set to a value of V
Optional(D, key, V) == D \cup {d @@ (key :> x) : d \in D, x \in V}

\* None, and a list as a value that may be None instead
PyNone == [py |-> "None"]

PyList(items) == [py |-> "list", items |-> items]

(***************************************************************************)
(* FinancialCalculator                                                    *)
(***************************************************************************)
\* __init__: the economic assumptions
NewCalculator ==
    [inflation_rate |-> Dec(2, 100), property_appreciation_rate |-> Dec(3, 100)]


\* Python's x / y on floats
TrueDiv(x, y) == IF y = f_0 THEN Raise("ZeroDivisionError") ELSE Return(FDiv(x, y))

\* a power that leaves the float range raises
PowerResult(v) == IF IsInf(v) THEN Raise("OverflowError") ELSE Return(v)

\* Python's x ** n on a finite float and an int: 0.0 ** n raises for n < 0
Power(x, n) ==
    IF x = f_0 THEN (IF n < 0 THEN Raise("ZeroDivisionError")
                     ELSE Return(IF n = 0 THEN f_1 ELSE f_0))
    ELSE PowerResult(FPow(x, n))

\* the return statement of calculate_mortgage_payment for a nonzero monthly
\* rate, given the outcome pow of (1 + monthly_rate) ** num_payments
AnnuityPayment(loan_amount, monthly_rate, pow) ==
    IF pow.kind = "raise" THEN pow
    ELSE TrueDiv(FMul(loan_amount, FMul(monthly_rate, pow.value)), FSub(pow.value, f_1))

\* the body of calculate_mortgage_payment after its first two assignments
\* PaymentOf without the branch for a zero rate
PaymentOf_NoZeroRate(loan_amount, monthly_rate, num_payments) ==
    AnnuityPayment(loan_amount, monthly_rate, Power(FAdd(f_1, monthly_rate), num_payments))

PaymentOf(loan_amount, monthly_rate, num_payments) ==
    IF monthly_rate = f_0
    THEN TrueDiv(loan_amount, FromInt(num_payments))
    ELSE AnnuityPayment(loan_amount, monthly_rate,
                        Power(FAdd(f_1, monthly_rate), num_payments))

calculate_mortgage_payment(loan_amount, interest_rate, loan_term_years) ==
    PaymentOf(loan_amount, FDiv(interest_rate, f_12), loan_term_years * 12)

\* ScheduleAppend recording the balance as it is, below zero too
ScheduleAppend_NotFloored(st, monthly_payment, interest_payment, principal_payment, remaining_balance) ==
    [payment_num       |-> st.payment_num + 1,
     remaining_balance |-> remaining_balance,
     schedule          |-> Append(st.schedule,
         [Payment          |-> st.payment_num,
          PaymentAmount    |-> monthly_payment,
          Principal        |-> principal_payment,
          Interest         |-> interest_payment,
          RemainingBalance |-> remaining_balance])]

\* the end of the loop body of calculate_amortization_schedule: the row
\* appended, and the loop state st = [payment_num, remaining_balance,
\* schedule] after the pass
ScheduleAppend(st, monthly_payment, interest_payment, principal_payment, remaining_balance) ==
    [payment_num       |-> st.payment_num + 1,
     remaining_balance |-> remaining_balance,
     schedule          |-> Append(st.schedule,
         [Payment          |-> st.payment_num,
          PaymentAmount    |-> monthly_payment,
          Principal        |-> principal_payment,
          Interest         |-> interest_payment,
          RemainingBalance |-> FMax(f_0, remaining_balance)])]

SchedulePrincipal(st, monthly_payment, interest_payment, principal_payment) ==
    ScheduleAppend(st, monthly_payment, interest_payment, principal_payment,
                   FSub(st.remaining_balance, principal_payment))

ScheduleInterest(st, monthly_payment, interest_payment) ==
    SchedulePrincipal(st, monthly_payment, interest_payment,
                      FSub(monthly_payment, interest_payment))

\* one pass of the loop body
ScheduleStep(st, monthly_rate, monthly_payment) ==
    ScheduleInterest(st, monthly_payment, FMul(st.remaining_balance, monthly_rate))

\* the next k passes of the loop "for payment_num in range(1, num_payments + 1)"
\* from the loop state st; the passes are grouped by halves, which keeps the
\* evaluation shallow and changes nothing else
RECURSIVE ScheduleLoop(_, _, _, _, _)
ScheduleLoop(st, k, num_payments, monthly_rate, monthly_payment) ==
    IF st.payment_num > num_payments \/ k <= 0 THEN st
    ELSE IF k = 1 THEN ScheduleStep(st, monthly_rate, monthly_payment)
    ELSE ScheduleLoop(
             ScheduleLoop(st, k \div 2, num_payments, monthly_rate, monthly_payment),
             k - k \div 2, num_payments, monthly_rate, monthly_payment)

\* calculate_amortization_schedule after its call of calculate_mortgage_payment
\* with the outcome payment: the rows of the returned DataFrame
ScheduleOf(loan_amount, monthly_rate, num_payments, payment) ==
    IF payment.kind = "raise" THEN payment
    ELSE Return(ScheduleLoop([payment_num |-> 1, remaining_balance |-> loan_amount,
                              schedule |-> <<>>],
                             num_payments, num_payments, monthly_rate,
                             payment.value).schedule)

calculate_amortization_schedule(loan_amount, interest_rate, loan_term_years) ==
    ScheduleOf(loan_amount, FDiv(interest_rate, f_12), loan_term_years * 12,
               calculate_mortgage_payment(loan_amount, interest_rate, loan_term_years))

calculate_cash_on_cash_return(annual_cash_flow, total_cash_invested) ==
    IF FLe(total_cash_invested, f_0) THEN Raise("ValueError")
    ELSE Return(FDiv(annual_cash_flow, total_cash_invested))

\* calculate_cap_rate rejecting only a negative property value
calculate_cap_rate_ZeroAllowed(noi, property_value) ==
    IF FLt(property_value, f_0) THEN Raise("ValueError")
    ELSE TrueDiv(noi, property_value)

calculate_cap_rate(noi, property_value) ==
    IF FLe(property_value, f_0) THEN Raise("ValueError")
    ELSE Return(FDiv(noi, property_value))

calculate_loan_to_value(loan_amount, property_value) ==
    IF FLe(property_value, f_0) THEN Raise("ValueError")
    ELSE Return(FDiv(loan_amount, property_value))

\* set_economic_assumptions storing a given inflation rate as the
\* appreciation rate as well when no appreciation rate is given
set_economic_assumptions_RatesCoupled(self, inflation_rate, appreciation_rate) ==
    [inflation_rate |-> IF inflation_rate # PyNone THEN inflation_rate
                        ELSE self.inflation_rate,
     property_appreciation_rate |-> IF appreciation_rate # PyNone THEN appreciation_rate
                                    ELSE IF inflation_rate # PyNone THEN inflation_rate
                                    ELSE self.property_appreciation_rate]

\* set_economic_assumptions: the fields of self afterwards
set_economic_assumptions(self, inflation_rate, appreciation_rate) ==
    [inflation_rate |-> IF inflation_rate # PyNone THEN inflation_rate
                        ELSE self.inflation_rate,
     property_appreciation_rate |-> IF appreciation_rate # PyNone THEN appreciation_rate
                                    ELSE self.property_appreciation_rate]

calculate_noi(annual_income, annual_expenses) == FSub(annual_income, annual_expenses)

calculate_cash_flow(noi, annual_debt_service) == FSub(noi, annual_debt_service)

estimate_future_value(self, current_value, years, appreciation_rate) ==
    LET pow == Power(FAdd(f_1, IF appreciation_rate = PyNone
                               THEN self.property_appreciation_rate
                               ELSE appreciation_rate), years)
    IN  IF pow.kind = "raise" THEN pow ELSE Return(FMul(current_value, pow.value))

\* np.irr(values), a function of the NumPy library: NumPy 1.20 removed it,
\* and then the attribute np.irr does not exist; before that it returns NaN
\* for a series without a real solution, which a series that never changes
\* sign is, and the rate it found otherwise.  np is the library in use.
HasSignChange(values) ==
    /\ \E i \in DOMAIN values : FGt(values[i], f_0)
    /\ \E i \in DOMAIN values : FLt(values[i], f_0)

np_irr(np, values) ==
    IF ~np.has_irr THEN Raise("AttributeError")
    ELSE IF HasSignChange(values) THEN Return(np.rate)
    ELSE Return(FNaN)

\* all_cash_flows = np.array([-initial_investment] + cash_flows)
AllCashFlows(initial_investment, cash_flows) == <<FNeg(initial_investment)>> \o cash_flows

\* calculate_irr without its try ... except
calculate_irr_NoExcept(np, initial_investment, cash_flows) ==
    np_irr(np, AllCashFlows(initial_investment, cash_flows))

\* try: return np.irr(all_cash_flows); except Exception: return None
calculate_irr(np, initial_investment, cash_flows) ==
    LET irr == np_irr(np, AllCashFlows(initial_investment, cash_flows))
    IN  IF irr.kind = "raise" THEN Return(PyNone) ELSE irr

\* calculate_break_even_point testing monthly_net < 0
calculate_break_even_point_ZeroNetDivided(purchase_price, monthly_income, monthly_expenses) ==
    IF FLt(FSub(monthly_income, monthly_expenses), f_0) THEN Return(FInf(1))
    ELSE TrueDiv(purchase_price, FSub(monthly_income, monthly_expenses))

calculate_break_even_point(purchase_price, monthly_income, monthly_expenses) ==
    IF FLe(FSub(monthly_income, monthly_expenses), f_0) THEN Return(FInf(1))
    ELSE TrueDiv(purchase_price, FSub(monthly_income, monthly_expenses))

\* projection.append with the cash flow as the cumulative cash flow
ProjectionAppend_NoRunningSum(projection, year, income, expenses, noi, mortgage_payment, cash_flow) ==
    Append(projection, [Year |-> year, Income |-> income, Expenses |-> expenses,
        NOI |-> noi, MortgagePayment |-> mortgage_payment, CashFlow |-> cash_flow,
        CumulativeCashFlow |-> cash_flow])

\* projection.append({...}) for the year
ProjectionAppend(projection, year, income, expenses, noi, mortgage_payment, cash_flow) ==
    Append(projection,
        [Year               |-> year,
         Income             |-> income,
         Expenses           |-> expenses,
         NOI                |-> noi,
         MortgagePayment    |-> mortgage_payment,
         CashFlow           |-> cash_flow,
         CumulativeCashFlow |-> IF year = 1 THEN cash_flow
                                ELSE FAdd(projection[Len(projection)].CumulativeCashFlow,
                                          cash_flow)])

ProjectionCashFlow(projection, year, income, expenses, noi, mortgage_payment) ==
    ProjectionAppend(projection, year, income, expenses, noi, mortgage_payment,
                     FSub(noi, mortgage_payment))

\* the loop body with noi = income
ProjectionYear_ExpensesIgnored(projection, year, income, expenses, mortgage_payment) ==
    ProjectionCashFlow(projection, year, income, expenses, income, mortgage_payment)

\* one pass of the loop body; inflation is (1 + self.inflation_rate) ** (year - 1)
ProjectionYear(projection, year, income, expenses, mortgage_payment) ==
    ProjectionCashFlow(projection, year, income, expenses, FSub(income, expenses),
                       mortgage_payment)

\* the loop "for year in range(1, years + 1)" from the given year on
RECURSIVE ProjectionLoop(_, _, _, _, _, _, _)
ProjectionLoop(self, projection, year, years, annual_income, annual_expenses, mortgage_payment) ==
    IF year > years THEN Return(projection)
    ELSE IF Power(FAdd(f_1, self.inflation_rate), year - 1).kind = "raise"
    THEN Power(FAdd(f_1, self.inflation_rate), year - 1)
    ELSE ProjectionLoop(self,
             ProjectionYear(projection, year,
                 FMul(annual_income, Power(FAdd(f_1, self.inflation_rate), year - 1).value),
                 FMul(annual_expenses, Power(FAdd(f_1, self.inflation_rate), year - 1).value),
                 mortgage_payment),
             year + 1, years, annual_income, annual_expenses, mortgage_payment)

\* the rows of the returned DataFrame
calculate_cash_flow_projection(self, initial_investment, annual_income, annual_expenses, mortgage_payment, years) ==
    ProjectionLoop(self, <<>>, 1, years, annual_income, annual_expenses, mortgage_payment)

\* ---- analyze_investment
Min(a, b) == IF a <= b THEN a ELSE b

\* DataFrame.iloc[k]: k counts from 0, a negative k counts from the end
Iloc(rows, k) ==
    IF k >= Len(rows) \/ k < -Len(rows) THEN Raise("IndexError")
    ELSE Return(rows[IF k >= 0 THEN k + 1 ELSE Len(rows) + k + 1])

\* "Extract key values": the locals read from property_data
AnalysisInputs(property_data) ==
    [purchase_price  |-> Get(property_data, "purchase_price", f_0),
     property_value  |-> Get(property_data, "current_value",
                             Get(property_data, "purchase_price", f_0)),
     down_payment    |-> Get(property_data, "down_payment", f_0),
     loan_amount     |-> FSub(Get(property_data, "purchase_price", f_0),
                              Get(property_data, "down_payment", f_0)),
     interest_rate   |-> Get(property_data, "interest_rate", Dec(4, 100)),
     loan_term       |-> Get(property_data, "loan_term_years", 30),
     annual_income   |-> Get(property_data, "annual_income", f_0),
     annual_expenses |-> Get(property_data, "annual_expenses", f_0)]

\* the outcome of analyze_investment and the series built for np.irr, if any
Analysis(outcome, series) == [result |-> outcome, all_cash_flows |-> series]

\* cap rate, cash-on-cash return and loan-to-value, and the results so far
AnalysisResults(v, monthly_mortgage, annual_mortgage, noi, annual_cash_flow) ==
    IF calculate_cap_rate(noi, v.property_value).kind = "raise"
    THEN calculate_cap_rate(noi, v.property_value)
    ELSE IF calculate_cash_on_cash_return(annual_cash_flow, v.down_payment).kind = "raise"
    THEN calculate_cash_on_cash_return(annual_cash_flow, v.down_payment)
    ELSE IF calculate_loan_to_value(v.loan_amount, v.property_value).kind = "raise"
    THEN calculate_loan_to_value(v.loan_amount, v.property_value)
    ELSE Return(
        [monthly_mortgage    |-> monthly_mortgage,
         annual_mortgage     |-> annual_mortgage,
         noi                 |-> noi,
         annual_cash_flow    |-> annual_cash_flow,
         monthly_cash_flow   |-> FDiv(annual_cash_flow, f_12),
         cap_rate            |-> calculate_cap_rate(noi, v.property_value).value,
         cash_on_cash_return |->
             calculate_cash_on_cash_return(annual_cash_flow, v.down_payment).value,
         loan_to_value       |->
             calculate_loan_to_value(v.loan_amount, v.property_value).value])

\* "Basic calculations" after the mortgage payment, whose outcome is payment
AnalysisBasics(v, payment) ==
    IF payment.kind = "raise" THEN payment
    ELSE AnalysisResults(v, payment.value, FMul(payment.value, f_12),
             calculate_noi(v.annual_income, v.annual_expenses),
             calculate_cash_flow(calculate_noi(v.annual_income, v.annual_expenses),
                                 FMul(payment.value, f_12)))

\* results['irr'] = self.calculate_irr(down_payment, projected_cash_flows)
AnalysisIrr(np, v, results, future_value, projection, projected_cash_flows) ==
    Analysis(Return(results @@
                 [future_value         |-> future_value,
                  cash_flow_projection |-> projection,
                  irr |-> calculate_irr(np, v.down_payment, projected_cash_flows).value]),
             AllCashFlows(v.down_payment, projected_cash_flows))

\* AnalysisSale adding the equity at sale without taking off the down payment
AnalysisSale_DownPaymentKept(np, v, results, future_value, projection, row) ==
    IF row.kind = "raise" THEN Analysis(row, NoResult)
    ELSE AnalysisIrr(np, v, results, future_value, projection,
             [y \in DOMAIN projection |->
                 IF y < Len(projection) THEN projection[y].CashFlow
                 ELSE FAdd(projection[y].CashFlow,
                           FSub(future_value, row.value.RemainingBalance))])

\* projected_cash_flows[-1] += equity_at_sale - down_payment, the loan
\* balance being that of the row read from the amortization schedule
AnalysisSale(np, v, results, future_value, projection, row) ==
    IF row.kind = "raise" THEN Analysis(row, NoResult)
    ELSE AnalysisIrr(np, v, results, future_value, projection,
             [y \in DOMAIN projection |->
                 IF y < Len(projection) THEN projection[y].CashFlow
                 ELSE FAdd(projection[y].CashFlow,
                           FSub(FSub(future_value, row.value.RemainingBalance),
                                v.down_payment))])

\* the projections reading row years * 12 - 1 of the schedule
AnalysisProjection_TermNotCapped(np, v, results, years, future_value, projection) ==
    IF future_value.kind = "raise" THEN Analysis(future_value, NoResult)
    ELSE IF projection.kind = "raise" THEN Analysis(projection, NoResult)
    ELSE IF projection.value = <<>> THEN Analysis(Raise("KeyError"), NoResult)
    ELSE AnalysisSale(np, v, results, future_value.value, projection.value,
             Iloc(calculate_amortization_schedule(v.loan_amount, v.interest_rate,
                                                  v.loan_term).value,
                  years * 12 - 1))

\* "Future projections": the column 'Cash Flow' of an empty DataFrame does not exist
AnalysisProjection(np, v, results, years, future_value, projection) ==
    IF future_value.kind = "raise" THEN Analysis(future_value, NoResult)
    ELSE IF projection.kind = "raise" THEN Analysis(projection, NoResult)
    ELSE IF projection.value = <<>> THEN Analysis(Raise("KeyError"), NoResult)
    ELSE AnalysisSale(np, v, results, future_value.value, projection.value,
             Iloc(calculate_amortization_schedule(v.loan_amount, v.interest_rate,
                                                  v.loan_term).value,
                  Min(years * 12 - 1, v.loan_term * 12 - 1)))

AnalysisHolding(self, np, v, years, basics) ==
    IF basics.kind = "raise" \/ years = 0 THEN Analysis(basics, NoResult)
    ELSE AnalysisProjection(np, v, basics.value, years,
             estimate_future_value(self, v.property_value, years, PyNone),
             calculate_cash_flow_projection(self, v.down_payment, v.annual_income,
                 v.annual_expenses, basics.value.annual_mortgage, years))

\* a missing or zero holding period skips the projections
analyze_investment(self, np, property_data) ==
    AnalysisHolding(self, np, AnalysisInputs(property_data),
        Get(property_data, "holding_period_years", 0),
        AnalysisBasics(AnalysisInputs(property_data),
            calculate_mortgage_payment(AnalysisInputs(property_data).loan_amount,
                                       AnalysisInputs(property_data).interest_rate,
                                       AnalysisInputs(property_data).loan_term)))

(***************************************************************************)
(* PropertyAnalyzer (src/src/property_analyzer.py).  A dict whose order of *)
(* insertion matters (feature_weights, feature_scores) is the sequence of  *)
(* its <<key, value>> items; market data is a DataFrame given by its set   *)
(* of columns and the sequence of its rows.  self has the fields           *)
(* market_data and feature_weights.                                        *)
(***************************************************************************)
feature_weights ==
    << <<"location", Dec(25, 100)>>, <<"condition", Dec(15, 100)>>,
       <<"size", Dec(15, 100)>>, <<"age", Dec(10, 100)>>,
       <<"amenities", Dec(10, 100)>>, <<"schools", Dec(10, 100)>>,
       <<"crime_rate", Dec(8, 100)>>, <<"future_development", Dec(7, 100)>> >>

NewAnalyzer(market_data) == [market_data |-> market_data, feature_weights |-> feature_weights]

\* the keys of a dict given by its items, and the value of one of its keys
Keys(items) == {items[i][1] : i \in DOMAIN items}

Value(items, key) == items[CHOOSE i \in DOMAIN items : items[i][1] = key][2]

\* sum(d.values()): the float sum from the left
RECURSIVE SumValues(_, _)
SumValues(items, n) ==
    IF n = 0 THEN f_0 ELSE FAdd(SumValues(items, n - 1), items[n][2])

\* max(0, min(10, score))
Clamp10(score) == FMax(f_0, FMin(f_10, score))

\* round(x, 2): q or q + 1 as c compares the part cut off with one half;
\* a tie goes to the even one
RoundTie(q, c) == IF c > 0 \/ (c = 0 /\ BNIsOdd(q)) THEN BNAdd(q, <<1>>) ELSE q

\* the integer nearest to n / 2^k, where q is n cut by k bits
RoundHalfEven(n, q, k) == RoundTie(q, BNCmp(BNSub(n, BNShl(q, k)), BNShl(<<1>>, k - 1)))

\* the integer nearest to n / 2^k
Hundredths(n, k) == RoundHalfEven(n, BNShr(n, k), k)

\* round(x, 2) is the float nearest to the decimal with two places that is
\* nearest to the exact value of x; an integral float, inf and nan are kept
Round2(x) ==
    IF x.m = <<>> \/ x.e >= 0 THEN x
    ELSE FDiv(Canon(x.s, Hundredths(BNMulSmall(x.m, 100), -x.e), 0), FromInt(100))

\* ---- _calculate_location_score
location_factors ==
    << <<"proximity_to_downtown", f_1_5>>, <<"proximity_to_public_transport", f_1>>,
       <<"proximity_to_schools", f_0_7>>, <<"proximity_to_shopping", f_0_7>>,
       <<"proximity_to_parks", f_0_5>>, <<"neighborhood_rating", f_1_5>>,
       <<"walkability_score", f_1>> >>

\* the loop over the factors from factor i on; the score starts at 5.0
RECURSIVE LocationLoop(_, _, _)
LocationLoop(property_data, i, location_score) ==
    IF i > Len(location_factors) THEN Clamp10(location_score)
    ELSE IF location_factors[i][1] \in DOMAIN property_data
    THEN LocationLoop(property_data, i + 1,
             FAdd(location_score,
                  FDiv(FMul(FSub(property_data[location_factors[i][1]], FromInt(5)),
                            location_factors[i][2]),
                       FromInt(5))))
    ELSE LocationLoop(property_data, i + 1, location_score)

calculate_location_score(property_data) == LocationLoop(property_data, 1, FromInt(5))

\* RatedFeature with the mid-range score for a rating that is not given
RatedFeature_Imputed(property_data, key, feature) ==
    << <<feature, Get(property_data, key, FromInt(5))>> >>

\* ---- evaluate_features; current_year is datetime.datetime.now().year
\* a feature whose score is the rating given under key, if it is given
RatedFeature(property_data, key, feature) ==
    IF key \in DOMAIN property_data THEN << <<feature, property_data[key]>> >> ELSE <<>>

LocationFeature(property_data) ==
    << <<"location", IF "location_rating" \in DOMAIN property_data
                     THEN property_data.location_rating
                     ELSE calculate_location_score(property_data)>> >>

SizeFeature(property_data) ==
    IF "square_footage" \in DOMAIN property_data
    THEN << <<"size", Clamp10(FDiv(FSub(property_data.square_footage, FromInt(500)),
                                   FromInt(250)))>> >>
    ELSE <<>>

AgeFeature(property_data, current_year) ==
    IF "year_built" \in DOMAIN property_data
    THEN << <<"age", Clamp10(FSub(f_10,
                 FDiv(FromInt(current_year - property_data.year_built), f_10)))>> >>
    ELSE <<>>

CrimeFeature(property_data) ==
    IF "crime_rate" \in DOMAIN property_data
    THEN << <<"crime_rate",
              Clamp10(FSub(f_10, FMul(property_data.crime_rate, FromInt(100))))>> >>
    ELSE <<>>

evaluate_features(property_data, current_year) ==
    LocationFeature(property_data)
    \o RatedFeature(property_data, "condition", "condition")
    \o SizeFeature(property_data)
    \o AgeFeature(property_data, current_year)
    \o RatedFeature(property_data, "amenities", "amenities")
    \o RatedFeature(property_data, "school_rating", "schools")
    \o CrimeFeature(property_data)
    \o RatedFeature(property_data, "future_development_rating", "future_development")

\* ---- calculate_property_score
\* ScoreNormalized without the step "adjust to ensure we use the full weight"
ScoreNormalized_NotRescaled(self, overall_score, total_weight) ==
    Round2(IF FGt(total_weight, f_0) THEN FDiv(overall_score, total_weight)
           ELSE overall_score)

\* the statements after the loop
ScoreNormalized(self, overall_score, total_weight) ==
    Round2(IF FGt(total_weight, f_0)
           THEN FMul(FDiv(overall_score, total_weight),
                     FDiv(SumValues(self.feature_weights, Len(self.feature_weights)),
                          total_weight))
           ELSE overall_score)

\* the loop over feature_scores.items() from item i on
RECURSIVE ScoreLoop(_, _, _, _, _)
ScoreLoop(self, feature_scores, i, overall_score, total_weight) ==
    IF i > Len(feature_scores) THEN ScoreNormalized(self, overall_score, total_weight)
    ELSE IF feature_scores[i][1] \in Keys(self.feature_weights)
    THEN ScoreLoop(self, feature_scores, i + 1,
             FAdd(overall_score,
                  FMul(feature_scores[i][2],
                       Value(self.feature_weights, feature_scores[i][1]))),
             FAdd(total_weight, Value(self.feature_weights, feature_scores[i][1])))
    ELSE ScoreLoop(self, feature_scores, i + 1, overall_score, total_weight)

calculate_property_score(self, feature_scores) ==
    ScoreLoop(self, feature_scores, 1, f_0, f_0)

\* ---- calculate_basic_metrics
PricePerSqft(property_data) ==
    IF "price" \in DOMAIN property_data /\ "square_footage" \in DOMAIN property_data
    THEN [price_per_sqft |->
             IF FGt(property_data.square_footage, f_0)
             THEN FDiv(property_data.price, property_data.square_footage) ELSE f_0]
    ELSE EmptyDict

\* pow is the outcome of (1 + location_growth_rate) ** 5
Appreciation(property_data, pow) ==
    IF "location_growth_rate" \in DOMAIN property_data
    THEN [estimated_5yr_appreciation |->
             FMul(property_data.price, FSub(pow.value, f_1))]
    ELSE EmptyDict

AgeMetrics(age) ==
    [age |-> age,
     estimated_remaining_life |-> IF 75 - age > 0 THEN 75 - age ELSE 0,
     age_depreciation_factor |->
         FMin(f_1, FMax(f_0_25, FSub(f_1, FDiv(FromInt(age), FromInt(100)))))]

\* the metrics, pow being the outcome of (1 + location_growth_rate) ** 5
BasicMetrics(property_data, current_year, pow) ==
    IF "location_growth_rate" \in DOMAIN property_data /\ pow.kind = "raise" THEN pow
    ELSE Return(PricePerSqft(property_data)
                @@ Appreciation(property_data, pow)
                @@ (IF "year_built" \in DOMAIN property_data
                    THEN AgeMetrics(current_year - property_data.year_built)
                    ELSE EmptyDict))

calculate_basic_metrics(property_data, current_year) ==
    IF "location_growth_rate" \in DOMAIN property_data
       /\ "price" \notin DOMAIN property_data
    THEN Raise("KeyError")
    ELSE BasicMetrics(property_data, current_year,
             Power(FAdd(f_1, Get(property_data, "location_growth_rate", f_0)), 5))

\* ---- _get_comparable_properties
\* df[df[column] == value]
RowsEqual(rows, column, value) == SelectSeq(rows, LAMBDA r : r[column] = value)

\* a filter applied if the property has the attribute and the data the column
FilterEqual(self, comparable, property_data, column) ==
    IF column \in DOMAIN property_data /\ column \in self.market_data.columns
    THEN RowsEqual(comparable, column, property_data[column])
    ELSE comparable

FilterSize(self, comparable, property_data) ==
    IF "square_footage" \in DOMAIN property_data
       /\ "square_footage" \in self.market_data.columns
    THEN SelectSeq(comparable, LAMBDA r :
             /\ FGe(r.square_footage, FMul(property_data.square_footage, f_0_8))
             /\ FLe(r.square_footage, FMul(property_data.square_footage, f_1_2)))
    ELSE comparable

\* the rows left by the filters on zip code, property type and size
Narrowed(self, property_data) ==
    FilterSize(self,
        FilterEqual(self,
            FilterEqual(self, self.market_data.rows, property_data, "zip_code"),
            property_data, "property_type"),
        property_data)

\* "If too few properties, relax constraints"
Relaxed(self, comparable, property_data) ==
    IF /\ Len(comparable) < 5 /\ "zip_code" \in DOMAIN property_data
       /\ "neighborhood" \in DOMAIN property_data
       /\ "neighborhood" \in self.market_data.columns
    THEN RowsEqual(self.market_data.rows, "neighborhood", property_data.neighborhood)
    ELSE comparable

\* the rows of the DataFrame returned
get_comparable_properties(self, property_data) ==
    IF self.market_data = PyNone THEN <<>>
    ELSE Relaxed(self, Narrowed(self, property_data), property_data)

\* ---- compare_to_market
\* Series.sum() of a column over the first n rows
RECURSIVE ColumnSum(_, _, _)
ColumnSum(rows, column, n) ==
    IF n = 0 THEN f_0 ELSE FAdd(ColumnSum(rows, column, n - 1), rows[n][column])

\* the dict reported for a value of the property and the market's average
VsMarket(property_value, market_average) ==
    [property_value |-> property_value,
     market_average |-> market_average,
     difference     |-> FSub(property_value, market_average),
     percentage     |-> IF FGt(market_average, f_0)
                        THEN FMul(FSub(FDiv(property_value, market_average), f_1),
                                  FromInt(100))
                        ELSE f_0]

\* a / b if b > 0 else 0
RatioOrZero(a, b) == IF FGt(b, f_0) THEN FDiv(a, b) ELSE f_0

\* the comparison, given comparable_properties["price"].sum() and
\* comparable_properties["square_footage"].sum() over count rows
Compared(property_data, price_sum, square_footage_sum, count) ==
    (IF "price" \in DOMAIN property_data
     THEN [price_vs_market |-> VsMarket(property_data.price,
                                        FDiv(price_sum, FromInt(count)))]
     ELSE EmptyDict)
    @@ (IF "price" \in DOMAIN property_data /\ "square_footage" \in DOMAIN property_data
        THEN [price_per_sqft_vs_market |->
                 VsMarket(RatioOrZero(property_data.price, property_data.square_footage),
                          RatioOrZero(price_sum, square_footage_sum))]
        ELSE EmptyDict)

\* compare_to_market once the comparable properties are known
Comparison(self, property_data, comparable) ==
    IF Len(comparable) = 0
    THEN Return([error |-> "No comparable properties found in market data"])
    ELSE IF "price" \in DOMAIN property_data
            /\ ("price" \notin self.market_data.columns
                \/ ("square_footage" \in DOMAIN property_data
                    /\ "square_footage" \notin self.market_data.columns))
    THEN Raise("KeyError")
    ELSE Return(Compared(property_data,
                    ColumnSum(comparable, "price", Len(comparable)),
                    ColumnSum(comparable, "square_footage", Len(comparable)),
                    Len(comparable)))

\* compare_to_market without its test for missing market data
compare_to_market_NoneNotTested(self, property_data) ==
    Comparison(self, property_data, get_comparable_properties(self, property_data))

compare_to_market(self, property_data) ==
    IF self.market_data = PyNone
    THEN Return([error |-> "No market data available for comparison"])
    ELSE Comparison(self, property_data, get_comparable_properties(self, property_data))

\* ---- analyze_property
\* the results with the market comparison, which is made only with market data
WithComparison(self, results, comparison) ==
    IF self.market_data = PyNone THEN Return(results)
    ELSE IF comparison.kind = "raise" THEN comparison
    ELSE Return(results @@ [market_comparison |-> comparison.value])

PropertyResults(self, property_data, basic_metrics, feature_scores) ==
    IF basic_metrics.kind = "raise" THEN basic_metrics
    ELSE WithComparison(self,
             [basic_metrics  |-> basic_metrics.value,
              feature_scores |-> feature_scores,
              overall_score  |-> calculate_property_score(self, feature_scores)],
             compare_to_market(self, property_data))

analyze_property(self, property_data, current_year) ==
    PropertyResults(self, property_data,
        calculate_basic_metrics(property_data, current_year),
        evaluate_features(property_data, current_year))

update_market_data(self, new_market_data) == [self EXCEPT !.market_data = new_market_data]

\* ---- set_feature_weights
\* {k: v/total for k, v in new_weights.items()}
NormalizedWeights(new_weights, total) ==
    [i \in DOMAIN new_weights |-> <<new_weights[i][1], FDiv(new_weights[i][2], total)>>]

\* the statements after total = sum(new_weights.values()): the outcome and
\* the fields of self afterwards
WeightsSet(self, new_weights, total) ==
    IF FGt(FAbs(FSub(total, f_1)), Dec(1, 100))
    THEN IF total = f_0 /\ new_weights # <<>>
         THEN [result |-> Raise("ZeroDivisionError"), self |-> self]
         ELSE [result |-> Return(PyNone),
               self |-> [self EXCEPT !.feature_weights =
                                         NormalizedWeights(new_weights, total)]]
    ELSE [result |-> Return(PyNone), self |-> [self EXCEPT !.feature_weights = new_weights]]

set_feature_weights(self, new_weights) ==
    WeightsSet(self, new_weights, SumValues(new_weights, Len(new_weights)))

(***************************************************************************)
(* RiskAssessor                                                           *)
(***************************************************************************)
risk_weights ==
    [market_risk |-> f_0_3, location_risk |-> f_0_3,
     financial_risk |-> f_0_25, property_risk |-> f_0_15]

risk_thresholds == [low |-> FromInt(3), medium |-> FromInt(6), high |-> FromInt(8)]

\* _get_risk_level: every comparison with a NaN score is false
get_risk_level(score) ==
    IF FLt(score, risk_thresholds.low) THEN "low"
    ELSE IF FLt(score, risk_thresholds.medium) THEN "medium"
    ELSE IF FLt(score, risk_thresholds.high) THEN "high"
    ELSE "very high"

\* risk_score = 0; risk_factors = []
\* __init__: the fields of a new RiskAssessor
NewRiskAssessor == [risk_weights |-> risk_weights, risk_thresholds |-> risk_thresholds]

NoRisk == [risk_score |-> f_0, risk_factors |-> <<>>]

\* risk_score += penalty; risk_factors.append(factor)
Penalty(st, penalty, factor) ==
    [risk_score |-> FAdd(st.risk_score, penalty),
     risk_factors |-> Append(st.risk_factors, factor)]

\* min(max(risk_score, 0), 10)
Normalize(risk_score) == FMin(FMax(risk_score, f_0), f_10)

\* the dict an assessor returns
Assessment(score, factors) ==
    [score |-> score, factors |-> factors, assessment |-> get_risk_level(score)]

Assessed(st) == Assessment(Normalize(st.risk_score), st.risk_factors)

\* ---- assess_market_risk
MarketVolatility(st, market_data) ==
    IF FGt(Get(market_data, "price_volatility", f_0), f_0_15)
    THEN Penalty(st, FromInt(2), "High market price volatility")
    ELSE st

MarketTrend(st, market_data) ==
    IF FLt(Get(market_data, "price_trend", f_0), f_0)
    THEN Penalty(st, FMul(Get(market_data, "price_trend", f_0), FromInt(-10)),
                 "Negative price trend in the market")
    ELSE st

MarketInventory(st, market_data) ==
    IF FGt(Get(market_data, "inventory_months", f_0), FromInt(6))
    THEN Penalty(st, FMul(FSub(Get(market_data, "inventory_months", f_0), FromInt(6)), f_0_5),
                 "High inventory levels")
    ELSE st

MarketUnemployment(st, market_data) ==
    IF FGt(Get(market_data, "unemployment_rate", f_0), FromInt(5))
    THEN Penalty(st, FMul(FSub(Get(market_data, "unemployment_rate", f_0), FromInt(5)), f_0_3),
                 "Elevated unemployment rate")
    ELSE st

assess_market_risk(market_data) ==
    Return(Assessed(MarketUnemployment(MarketInventory(MarketTrend(
        MarketVolatility(NoRisk, market_data), market_data), market_data), market_data)))

\* ---- assess_location_risk
LocationCrimeAbove(location_data) ==
    FGt(Get(location_data, "crime_rate", f_0), Get(location_data, "avg_city_crime_rate", f_0))

\* factor = crime_rate / avg_city_crime_rate, the average defaulting to 1
LocationCrimeFactor(location_data) ==
    TrueDiv(Get(location_data, "crime_rate", f_0), Get(location_data, "avg_city_crime_rate", f_1))

LocationCrime(st, location_data) ==
    IF LocationCrimeAbove(location_data)
    THEN Penalty(st, FMin(FMul(LocationCrimeFactor(location_data).value, FromInt(2)), FromInt(3)),
                 "Above average crime rate")
    ELSE st

flood_risk_map ==
    ("medium" :> FromInt(2)) @@ ("high" :> FromInt(4)) @@ ("very high" :> FromInt(5))

\* str.capitalize() on the flood tiers that occur as inputs
Capitalize(s) ==
    CASE s = "low" -> "Low"
      [] s = "medium" -> "Medium"
      [] s = "high" -> "High"
      [] s = "very high" -> "Very high"
      [] s = "extreme" -> "Extreme"

LocationFlood(st, location_data) ==
    IF Get(location_data, "flood_risk", "low") # "low"
    THEN Penalty(st, Get(flood_risk_map, Get(location_data, "flood_risk", "low"), f_0),
                 Capitalize(Get(location_data, "flood_risk", "low")) \o " flood risk")
    ELSE st

LocationSchool(st, location_data) ==
    IF FLt(Get(location_data, "school_rating", FromInt(7)), FromInt(5))
    THEN Penalty(st, FMul(FSub(FromInt(5), Get(location_data, "school_rating", FromInt(7))), f_0_5),
                 "Below average school ratings")
    ELSE st

LocationJobs(st, location_data) ==
    IF FLt(Get(location_data, "job_growth", f_0), f_0)
    THEN Penalty(st, FAbs(FMul(Get(location_data, "job_growth", f_0), FromInt(3))),
                 "Declining job market")
    ELSE st

LocationTax(st, location_data) ==
    IF FGt(Get(location_data, "property_tax_trend", f_0), f_0_05)
    THEN Penalty(st, FMul(FSub(Get(location_data, "property_tax_trend", f_0), f_0_05), FromInt(20)),
                 "Rapidly increasing property taxes")
    ELSE st

\* the division of the crime rule raises before anything is returned
assess_location_risk(location_data) ==
    IF LocationCrimeAbove(location_data) /\ LocationCrimeFactor(location_data).kind = "raise"
    THEN LocationCrimeFactor(location_data)
    ELSE Return(Assessed(LocationTax(LocationJobs(LocationSchool(LocationFlood(
             LocationCrime(NoRisk, location_data), location_data), location_data),
             location_data), location_data)))

\* ---- assess_financial_risk
\* FinancialCashFlow taking the larger of the two penalties
FinancialCashFlow_Max(st, monthly_cash_flow) ==
    IF FLt(monthly_cash_flow, f_0)
    THEN Penalty(st, FMax(FDiv(FAbs(monthly_cash_flow), FromInt(200)), FromInt(4)),
                 "Negative cash flow")
    ELSE IF FLt(monthly_cash_flow, FromInt(200))
    THEN Penalty(st, FromInt(2), "Low cash flow margin")
    ELSE st

FinancialCashFlow(st, monthly_cash_flow) ==
    IF FLt(monthly_cash_flow, f_0)
    THEN Penalty(st, FMin(FDiv(FAbs(monthly_cash_flow), FromInt(200)), FromInt(4)),
                 "Negative cash flow")
    ELSE IF FLt(monthly_cash_flow, FromInt(200))
    THEN Penalty(st, FromInt(2), "Low cash flow margin")
    ELSE st

FinancialCapRate(st, cap_rate) ==
    IF FLt(cap_rate, f_0_05)
    THEN Penalty(st, FMul(FSub(f_0_05, cap_rate), FromInt(60)), "Below average capitalization rate")
    ELSE st

FinancialDscr(st, dscr) ==
    IF FLt(dscr, f_1_2)
    THEN Penalty(st, FMul(FSub(f_1_2, dscr), f_10), "Low debt service coverage ratio")
    ELSE st

FinancialLtv(st, ltv) ==
    IF FGt(ltv, f_0_8)
    THEN Penalty(st, FMul(FSub(ltv, f_0_8), FromInt(15)), "High loan-to-value ratio")
    ELSE st

FinancialVacancy(st, vacancy_rate) ==
    IF FGt(vacancy_rate, f_0_08)
    THEN Penalty(st, FMul(FSub(vacancy_rate, f_0_08), FromInt(20)), "Above average vacancy rate")
    ELSE st

assess_financial_risk(financial_data) ==
    Return(Assessed(FinancialVacancy(FinancialLtv(FinancialDscr(FinancialCapRate(
        FinancialCashFlow(NoRisk, Get(financial_data, "monthly_cash_flow", f_0)),
        Get(financial_data, "cap_rate", f_0_07)),
        Get(financial_data, "dscr", f_1_2)),
        Get(financial_data, "loan_to_value", f_0_7)),
        Get(financial_data, "vacancy_rate", f_0_05))))

\* ---- assess_property_risk
PropertyAge(st, property_age) ==
    IF FGt(property_age, FromInt(30))
    THEN Penalty(st, FMin(FMul(FSub(property_age, FromInt(30)), f_0_1), FromInt(3)),
                 "Older property may require more maintenance")
    ELSE st

\* str.lower() on the conditions that occur as inputs
Lower(s) == IF s = "Poor" THEN "poor" ELSE s

condition_score_map ==
    ("excellent" :> f_0) @@ ("good" :> f_1) @@ ("fair" :> f_2_5)
        @@ ("poor" :> FromInt(5)) @@ ("very poor" :> FromInt(7))

\* the tier is always added; only the three worst tiers are listed as a factor
PropertyCondition(st, condition) ==
    [risk_score |-> FAdd(st.risk_score, Get(condition_score_map, condition, f_0)),
     risk_factors |-> IF condition \in {"fair", "poor", "very poor"}
                      THEN Append(st.risk_factors, "Property in " \o condition \o " condition")
                      ELSE st.risk_factors]

PropertySpecialUse(st, property_data) ==
    IF Get(property_data, "is_special_use", FALSE)
    THEN Penalty(st, FromInt(2), "Special use property may have limited buyer pool")
    ELSE st

\* PropertyRepairs without the test of the age
PropertyRepairs_AnyAge(st, recent_repairs, property_age) ==
    IF recent_repairs = <<>>
    THEN Penalty(st, f_1_5, "No recent major repairs for aging property")
    ELSE st

PropertyRepairs(st, recent_repairs, property_age) ==
    IF recent_repairs = <<>> /\ FGt(property_age, FromInt(15))
    THEN Penalty(st, f_1_5, "No recent major repairs for aging property")
    ELSE st

PropertyObsolete(st, property_data) ==
    IF Get(property_data, "has_obsolete_features", FALSE)
    THEN Penalty(st, f_1, "Property has obsolete features")
    ELSE st

assess_property_risk(property_data) ==
    Return(Assessed(PropertyObsolete(PropertyRepairs(PropertySpecialUse(PropertyCondition(
        PropertyAge(NoRisk, Get(property_data, "age", f_0)),
        Lower(Get(property_data, "condition", "good"))), property_data),
        Get(property_data, "recent_major_repairs", <<>>), Get(property_data, "age", f_0)),
        property_data)))

\* ---- get_overall_risk_assessment
\* _generate_recommendations appends to a local list and ends without a
\* return statement: the caller receives None
generate_recommendations(property_data, financial_data, location_data, market_data, market_risk, location_risk, financial_risk, property_risk, overall_score) == PyNone

\* WeightedScore with the weights of the last two categories exchanged
WeightedScore_Swapped(market_risk, location_risk, financial_risk, property_risk) ==
    FAdd(FAdd(FAdd(FMul(market_risk.score, risk_weights.market_risk),
                   FMul(location_risk.score, risk_weights.location_risk)),
              FMul(financial_risk.score, risk_weights.property_risk)),
         FMul(property_risk.score, risk_weights.financial_risk))

WeightedScore(market_risk, location_risk, financial_risk, property_risk) ==
    FAdd(FAdd(FAdd(FMul(market_risk.score, risk_weights.market_risk),
                   FMul(location_risk.score, risk_weights.location_risk)),
              FMul(financial_risk.score, risk_weights.financial_risk)),
         FMul(property_risk.score, risk_weights.property_risk))

OverallAssessment(market_risk, location_risk, financial_risk, property_risk, weighted_score, recommendations, today) ==
    [overall_score |-> weighted_score,
     risk_level |-> get_risk_level(weighted_score),
     risk_breakdown |-> [market_risk |-> market_risk, location_risk |-> location_risk,
                         financial_risk |-> financial_risk, property_risk |-> property_risk],
     risk_factors |-> market_risk.factors \o location_risk.factors
                          \o financial_risk.factors \o property_risk.factors,
     recommendations |-> recommendations,
     assessment_date |-> today]

OverallWeighted(property_data, financial_data, location_data, market_data, market_risk, location_risk, financial_risk, property_risk, weighted_score, today) ==
    OverallAssessment(market_risk, location_risk, financial_risk, property_risk, weighted_score,
        generate_recommendations(property_data, financial_data, location_data, market_data,
            market_risk, location_risk, financial_risk, property_risk, weighted_score),
        today)

OverallOf(property_data, financial_data, location_data, market_data, market_risk, location_risk, financial_risk, property_risk, today) ==
    OverallWeighted(property_data, financial_data, location_data, market_data,
        market_risk, location_risk, financial_risk, property_risk,
        WeightedScore(market_risk, location_risk, financial_risk, property_risk), today)

\* today is datetime.now() formatted as a date; an exception of the location
\* assessor ends the call
get_overall_risk_assessment(property_data, financial_data, location_data, market_data, today) ==
    IF assess_location_risk(location_data).kind = "raise"
    THEN assess_location_risk(location_data)
    ELSE Return(OverallOf(property_data, financial_data, location_data, market_data,
                    assess_market_risk(market_data).value,
                    assess_location_risk(location_data).value,
                    assess_financial_risk(financial_data).value,
                    assess_property_risk(property_data).value, today))

(***************************************************************************)
(* Calls of the calculator: the inputs                                    *)
(***************************************************************************)
MaxTermYears == 5

f_0_06 == Dec(6, 100)

LoanAmounts == {FromInt(-1000), f_0, FromInt(1000), FromInt(300000)}

InterestRates == {f_0, f_0_06, f_12}

TermYears == (-1)..MaxTermYears

PaymentCalls ==
    {[loan_amount |-> l, interest_rate |-> r, loan_term_years |-> t] :
        l \in LoanAmounts, r \in InterestRates, t \in TermYears}

ScheduleCalls == {c \in PaymentCalls : FGt(c.loan_amount, f_0)}

Numerators == {FromInt(-24000), f_0, FromInt(18000), FromInt(200000)}

Denominators == {FromInt(-250000), f_0, FromInt(50000), FromInt(250000)}

RatioCalls == {[numerator |-> n, denominator |-> d] : n \in Numerators, d \in Denominators}

FinCalls ==
    {<<"calculate_mortgage_payment", c>> : c \in PaymentCalls}
    \cup {<<"calculate_amortization_schedule", c>> : c \in ScheduleCalls}
    \cup {<<o, c>> : o \in {"calculate_cap_rate", "calculate_cash_on_cash_return",
                            "calculate_loan_to_value"}, c \in RatioCalls}

InitFin ==
    /\ pc = "call"
    /\ obj = NewCalculator
    /\ all_cash_flows = NoResult
    /\ \E c \in FinCalls : op = c[1] /\ args = c[2]
    /\ result = NoResult

MortgagePayment ==
    /\ pc = "call" /\ op = "calculate_mortgage_payment"
    /\ result' = calculate_mortgage_payment(args.loan_amount, args.interest_rate,
                                            args.loan_term_years)
    /\ pc' = "done"
    /\ UNCHANGED <<op, args, obj, all_cash_flows>>

AmortizationSchedule ==
    /\ pc = "call" /\ op = "calculate_amortization_schedule"
    /\ result' = calculate_amortization_schedule(args.loan_amount, args.interest_rate,
                                                 args.loan_term_years)
    /\ pc' = "done"
    /\ UNCHANGED <<op, args, obj, all_cash_flows>>

CapRate ==
    /\ pc = "call" /\ op = "calculate_cap_rate"
    /\ result' = calculate_cap_rate(args.numerator, args.denominator)
    /\ pc' = "done"
    /\ UNCHANGED <<op, args, obj, all_cash_flows>>

CashOnCashReturn ==
    /\ pc = "call" /\ op = "calculate_cash_on_cash_return"
    /\ result' = calculate_cash_on_cash_return(args.numerator, args.denominator)
    /\ pc' = "done"
    /\ UNCHANGED <<op, args, obj, all_cash_flows>>

LoanToValue ==
    /\ pc = "call" /\ op = "calculate_loan_to_value"
    /\ result' = calculate_loan_to_value(args.numerator, args.denominator)
    /\ pc' = "done"
    /\ UNCHANGED <<op, args, obj, all_cash_flows>>

NextFin ==
    \/ MortgagePayment
    \/ AmortizationSchedule
    \/ CapRate
    \/ CashOnCashReturn
    \/ LoanToValue

SpecFin == InitFin /\ [][NextFin]_vars

(***************************************************************************)
(* A FinancialCalculator whose economic assumptions are changed between    *)
(* calls: the calls made on it and the values they are called with         *)
(***************************************************************************)
MaxYears == 4

\* the builds of NumPy: np.irr was removed in NumPy 1.20; where it exists it
\* returns the rate it finds, or nan when it finds none
NumPys == {[has_irr |-> FALSE], [has_irr |-> TRUE, rate |-> Dec(8, 100)]}

InflationRates == {PyNone, Dec(5, 100)}

AppreciationRates == {PyNone, Dec(5, 100)}

ProjectionIncomes == {FromInt(12000), f_0}

ProjectionExpenses == {FromInt(3000), FromInt(12000)}

ProjectionMortgages == {f_0, Dec(57553, 10)}

MonthlyAmounts == {f_0, FromInt(1000), FromInt(1200)}

PurchasePrices == {f_0, FromInt(100000)}

IrrCashFlows == {<<>>, <<FromInt(600)>>, <<FromInt(-100)>>, <<f_0, f_0>>, <<FromInt(600), FromInt(600)>>, <<FromInt(-100), FromInt(600)>>}

InvestmentData ==
    { [purchase_price |-> FromInt(100000), annual_income |-> FromInt(12000),
       annual_expenses |-> FromInt(3000)] @@ a @@ b @@ c @@ d :
        a \in Optional({EmptyDict}, "down_payment", {FromInt(20000)}),
        b \in Optional({EmptyDict}, "interest_rate", {f_0}),
        c \in Optional({EmptyDict}, "holding_period_years", {1, 3}),
        d \in {[loan_term_years |-> t] : t \in {1, 2}} }

InitCalc ==
    /\ pc = "idle"
    /\ op = "__init__"
    /\ args = EmptyDict
    /\ result = NoResult
    /\ obj = NewCalculator
    /\ all_cash_flows = NoResult

\* the setter may be called at any time; the next call sees what it left
SetEconomicAssumptions ==
    \E inflation_rate \in InflationRates, appreciation_rate \in AppreciationRates :
        /\ op' = "set_economic_assumptions"
        /\ args' = [inflation_rate |-> inflation_rate,
                    appreciation_rate |-> appreciation_rate]
        /\ obj' = set_economic_assumptions(obj, inflation_rate, appreciation_rate)
        /\ result' = Return(PyNone)
        /\ all_cash_flows' = NoResult
        /\ pc' = "idle"

CashFlowProjection ==
    /\ pc = "idle"
    /\ \E annual_income \in ProjectionIncomes, annual_expenses \in ProjectionExpenses,
          mortgage_payment \in ProjectionMortgages, years \in 0..MaxYears :
        /\ op' = "calculate_cash_flow_projection"
        /\ args' = [initial_investment |-> FromInt(20000),
                    annual_income |-> annual_income,
                    annual_expenses |-> annual_expenses,
                    mortgage_payment |-> mortgage_payment, years |-> years]
        /\ result' = calculate_cash_flow_projection(obj, FromInt(20000), annual_income,
                         annual_expenses, mortgage_payment, years)
    /\ pc' = "done"
    /\ all_cash_flows' = NoResult
    /\ UNCHANGED obj

BreakEvenPoint ==
    /\ pc = "idle"
    /\ \E purchase_price \in PurchasePrices, monthly_income \in MonthlyAmounts,
          monthly_expenses \in MonthlyAmounts :
        /\ op' = "calculate_break_even_point"
        /\ args' = [purchase_price |-> purchase_price,
                    monthly_income |-> monthly_income,
                    monthly_expenses |-> monthly_expenses]
        /\ result' = calculate_break_even_point(purchase_price, monthly_income,
                                                monthly_expenses)
    /\ pc' = "done"
    /\ all_cash_flows' = NoResult
    /\ UNCHANGED obj

CalculateIrr ==
    /\ pc = "idle"
    /\ \E np \in NumPys, initial_investment \in {f_0, FromInt(1000)},
          cash_flows \in IrrCashFlows :
        /\ op' = "calculate_irr"
        /\ args' = [np |-> np, initial_investment |-> initial_investment,
                    cash_flows |-> cash_flows]
        /\ all_cash_flows' = AllCashFlows(initial_investment, cash_flows)
        /\ result' = calculate_irr(np, initial_investment, cash_flows)
    /\ pc' = "done"
    /\ UNCHANGED obj

AnalyzeInvestment ==
    /\ pc = "idle"
    /\ \E np \in NumPys, property_data \in InvestmentData :
        /\ op' = "analyze_investment"
        /\ args' = [np |-> np, property_data |-> property_data]
        /\ \E analysis \in {analyze_investment(obj, np, property_data)} :
            /\ result' = analysis.result
            /\ all_cash_flows' = analysis.all_cash_flows
    /\ pc' = "done"
    /\ UNCHANGED obj

NextCalc ==
    \/ SetEconomicAssumptions
    \/ CashFlowProjection
    \/ BreakEvenPoint
    \/ CalculateIrr
    \/ AnalyzeInvestment

SpecCalc == InitCalc /\ [][NextCalc]_vars

(***************************************************************************)
(* A PropertyAnalyzer whose market data is replaced between calls: the     *)
(* calls made on it and the values they are called with                    *)
(***************************************************************************)
FeatureNames == {feature_weights[i][1] : i \in DOMAIN feature_weights}

AllFeatures == [i \in DOMAIN feature_weights |-> feature_weights[i][1]]

\* the features scored, in the order of the dict; "garage" is no known feature
FeatureLists ==
    {<<>>, <<"garage">>, <<"location", "garage">>, <<"location", "condition">>,
     <<"condition", "location">>, <<"location", "size", "age">>,
     <<"crime_rate", "future_development">>, SubSeq(AllFeatures, 1, 7), AllFeatures}
    \cup {<<f>> : f \in FeatureNames}

MixedScores ==
    [f \in FeatureNames \cup {"garage"} |->
        CASE f = "location" -> FromInt(8) [] f = "condition" -> FromInt(7)
          [] f = "size" -> FromInt(2) [] f = "age" -> Dec(74, 10)
          [] f = "crime_rate" -> FromInt(8) [] OTHER -> FromInt(6)]

ScoreProfiles ==
    {[f \in FeatureNames \cup {"garage"} |-> FromInt(s)] : s \in {0, 5, 10}}
    \cup {MixedScores}

FeatureScoreSets ==
    {[i \in DOMAIN names |-> <<names[i], scores[names[i]]>>] :
        names \in FeatureLists, scores \in ScoreProfiles}

CurrentYears == {2026}

FeatureRecords ==
    Optional(Optional(Optional(Optional(Optional(Optional({EmptyDict},
        "location_rating", {FromInt(8)}),
        "proximity_to_downtown", {FromInt(9)}),
        "condition", {FromInt(7)}),
        "square_footage", {FromInt(1000)}),
        "year_built", {2000}),
        "crime_rate", {Dec(2, 100)})

RatedRecords ==
    {r @@ [amenities |-> FromInt(6), school_rating |-> FromInt(9),
           future_development_rating |-> FromInt(4)] :
        r \in {EmptyDict, [condition |-> FromInt(7), year_built |-> 1890]}}

SearchRecords ==
    Optional(Optional(Optional(Optional(Optional({EmptyDict},
        "zip_code", {"10001", "10002"}),
        "property_type", {"condo", "house"}),
        "square_footage", {FromInt(1000)}),
        "neighborhood", {"A", "C"}),
        "price", {FromInt(250000)})

GrowthRecords ==
    {[location_growth_rate |-> Dec(3, 100)],
     [location_growth_rate |-> Dec(3, 100), price |-> FromInt(250000),
      square_footage |-> FromInt(1000), year_built |-> 2000]}

AnalyzedRecords ==
    {r \in SearchRecords : "price" \in DOMAIN r} \cup RatedRecords \cup GrowthRecords

MarketRow(zip_code, property_type, square_footage, price, neighborhood) ==
    [zip_code |-> zip_code, property_type |-> property_type,
     square_footage |-> FromInt(square_footage), price |-> FromInt(price),
     neighborhood |-> neighborhood]

MarketRows ==
    <<MarketRow("10001", "condo", 1000, 200000, "A"),
      MarketRow("10001", "condo", 1000, 300000, "A"),
      MarketRow("10002", "house", 2000, 400000, "A"),
      MarketRow("10001", "condo", 1100, 260000, "B"),
      MarketRow("10001", "condo", 900, 240000, "A"),
      MarketRow("10001", "condo", 1200, 280000, "A"),
      MarketRow("10001", "condo", 1000, 220000, "A"),
      MarketRow("10002", "condo", 1000, 230000, "A")>>

WithoutColumn(row, column) == [c \in DOMAIN row \ {column} |-> row[c]]

Markets ==
    {PyNone,
     [columns |-> DOMAIN MarketRows[1], rows |-> MarketRows],
     [columns |-> DOMAIN MarketRows[1], rows |-> <<>>],
     [columns |-> DOMAIN MarketRows[1] \ {"neighborhood"},
      rows |-> [i \in 1..3 |-> WithoutColumn(MarketRows[i], "neighborhood")]]}

InitAnalyzer ==
    /\ pc = "idle"
    /\ op = "__init__"
    /\ args = EmptyDict
    /\ result = NoResult
    /\ obj = NewAnalyzer(PyNone)
    /\ all_cash_flows = NoResult

\* the market data may be replaced at any time; the next call sees it
UpdateMarketData ==
    \E new_market_data \in Markets :
        /\ op' = "update_market_data"
        /\ args' = [new_market_data |-> new_market_data]
        /\ obj' = update_market_data(obj, new_market_data)
        /\ result' = Return(PyNone)
        /\ pc' = "idle"
        /\ UNCHANGED all_cash_flows

CalculatePropertyScore ==
    /\ pc = "idle"
    /\ \E feature_scores \in FeatureScoreSets :
        /\ op' = "calculate_property_score"
        /\ args' = [feature_scores |-> feature_scores]
        /\ result' = Return(calculate_property_score(obj, feature_scores))
    /\ pc' = "done"
    /\ UNCHANGED <<obj, all_cash_flows>>

EvaluateFeatures ==
    /\ pc = "idle"
    /\ \E property_data \in FeatureRecords \cup RatedRecords, current_year \in CurrentYears :
        /\ op' = "evaluate_features"
        /\ args' = [property_data |-> property_data, current_year |-> current_year]
        /\ result' = Return(evaluate_features(property_data, current_year))
    /\ pc' = "done"
    /\ UNCHANGED <<obj, all_cash_flows>>

GetComparableProperties ==
    /\ pc = "idle"
    /\ \E property_data \in SearchRecords :
        /\ op' = "_get_comparable_properties"
        /\ args' = [property_data |-> property_data]
        /\ result' = Return(get_comparable_properties(obj, property_data))
    /\ pc' = "done"
    /\ UNCHANGED <<obj, all_cash_flows>>

CompareToMarket ==
    /\ pc = "idle"
    /\ \E property_data \in SearchRecords :
        /\ op' = "compare_to_market"
        /\ args' = [property_data |-> property_data]
        /\ result' = compare_to_market(obj, property_data)
    /\ pc' = "done"
    /\ UNCHANGED <<obj, all_cash_flows>>

AnalyzeProperty ==
    /\ pc = "idle"
    /\ \E property_data \in AnalyzedRecords, current_year \in CurrentYears :
        /\ op' = "analyze_property"
        /\ args' = [property_data |-> property_data, current_year |-> current_year]
        /\ result' = analyze_property(obj, property_data, current_year)
    /\ pc' = "done"
    /\ UNCHANGED <<obj, all_cash_flows>>

NextAnalyzer ==
    \/ UpdateMarketData
    \/ CalculatePropertyScore
    \/ EvaluateFeatures
    \/ GetComparableProperties
    \/ CompareToMarket
    \/ AnalyzeProperty

SpecAnalyzer == InitAnalyzer /\ [][NextAnalyzer]_vars

(***************************************************************************)
(* A PropertyAnalyzer whose feature weights are replaced between the       *)
(* calls of calculate_property_score                                       *)
(***************************************************************************)
\* weights that sum to 1, to 4 (normalised, with a feature of their own),
\* to 1.005 (within the tolerance, kept as they are), none, and a sum of 0
WeightSets ==
    {<< <<"location", Dec(5, 10)>>, <<"condition", Dec(5, 10)>> >>,
     << <<"location", FromInt(2)>>, <<"size", f_1>>, <<"garage", f_1>> >>,
     << <<"location", Dec(5, 10)>>, <<"condition", Dec(505, 1000)>> >>,
     <<>>,
     << <<"location", f_0>> >>}

\* the weights may be replaced at any time; the next call sees them
SetFeatureWeights ==
    \E new_weights \in WeightSets :
        /\ op' = "set_feature_weights"
        /\ args' = [new_weights |-> new_weights]
        /\ \E set \in {set_feature_weights(obj, new_weights)} :
            /\ obj' = set.self
            /\ result' = set.result
        /\ pc' = "idle"
        /\ UNCHANGED all_cash_flows

NextScore ==
    \/ SetFeatureWeights
    \/ CalculatePropertyScore

SpecScore == InitAnalyzer /\ [][NextScore]_vars

(***************************************************************************)
(* Calls of the risk assessor: the inputs                                 *)
(***************************************************************************)
\* the float s * 2^e
Pow2(s, e) == [s |-> s, m |-> <<1>>, e |-> e]

MarketData ==
    Optional(Optional(Optional(Optional({EmptyDict},
        "price_volatility", {f_0_15, Dec(2, 10)}),
        "price_trend", {Dec(-5, 100), FromInt(-2)}),
        "inventory_months", {FromInt(8)}),
        "unemployment_rate", {Dec(75, 10)})

CrimeRates ==
    {EmptyDict,
     ("crime_rate" :> f_1),
     ("crime_rate" :> FromInt(5)) @@ ("avg_city_crime_rate" :> FromInt(4)),
     ("crime_rate" :> FromInt(8)) @@ ("avg_city_crime_rate" :> FromInt(4)),
     ("crime_rate" :> FromInt(3)) @@ ("avg_city_crime_rate" :> FromInt(4)),
     ("crime_rate" :> f_1) @@ ("avg_city_crime_rate" :> f_0),
     ("crime_rate" :> f_1) @@ ("avg_city_crime_rate" :> FromInt(-1)),
     ("crime_rate" :> Pow2(1, 1000)) @@ ("avg_city_crime_rate" :> Pow2(-1, -1000))}

LocationData ==
    Optional(Optional(Optional(Optional(CrimeRates,
        "flood_risk", {"medium", "very high", "extreme"}),
        "school_rating", {FromInt(3)}),
        "job_growth", {Dec(-2, 100), Pow2(-1, 1023)}),
        "property_tax_trend", {f_0_08})

FinancialData ==
    Optional(Optional(Optional(Optional(Optional({EmptyDict},
        "monthly_cash_flow", {FromInt(-250), FromInt(-1000), FromInt(100), FromInt(500)}),
        "cap_rate", {Dec(3, 100), FromInt(-1)}),
        "dscr", {Dec(9, 10)}),
        "loan_to_value", {Dec(95, 100)}),
        "vacancy_rate", {f_0_08, Dec(12, 100)})

PropertyData ==
    Optional(Optional(Optional(Optional(Optional({EmptyDict},
        "age", {FromInt(20), FromInt(40), FromInt(150)}),
        "condition", {"excellent", "good", "fair", "poor", "very poor", "Poor"}),
        "is_special_use", {TRUE}),
        "recent_major_repairs", {<<"roof">>}),
        "has_obsolete_features", {TRUE})

OverallMarketData ==
    {EmptyDict,
     ("price_volatility" :> Dec(2, 10)) @@ ("price_trend" :> Dec(-5, 100)),
     ("price_volatility" :> Dec(2, 10)) @@ ("price_trend" :> FromInt(-2))}

OverallLocationData ==
    {EmptyDict,
     ("crime_rate" :> FromInt(8)) @@ ("avg_city_crime_rate" :> FromInt(4))
         @@ ("flood_risk" :> "very high"),
     ("crime_rate" :> FromInt(5)) @@ ("avg_city_crime_rate" :> FromInt(4))
         @@ ("flood_risk" :> "very high") @@ ("job_growth" :> Pow2(-1, 1023)),
     ("crime_rate" :> f_1) @@ ("avg_city_crime_rate" :> f_0),
     ("crime_rate" :> Pow2(1, 1000)) @@ ("avg_city_crime_rate" :> Pow2(-1, -1000))
         @@ ("job_growth" :> Pow2(-1, 1023))}

OverallFinancialData ==
    {EmptyDict,
     ("monthly_cash_flow" :> FromInt(-250)),
     ("monthly_cash_flow" :> FromInt(-1000)) @@ ("loan_to_value" :> Dec(95, 100))
         @@ ("dscr" :> Dec(9, 10)),
     ("monthly_cash_flow" :> FromInt(-1000)) @@ ("cap_rate" :> FromInt(-1))}

OverallPropertyData ==
    {EmptyDict,
     ("condition" :> "poor") @@ ("age" :> FromInt(150)),
     ("condition" :> "very poor") @@ ("age" :> FromInt(150)) @@ ("is_special_use" :> TRUE)}

OverallCalls ==
    {[property_data |-> p, financial_data |-> f, location_data |-> l, market_data |-> m] :
        p \in OverallPropertyData, f \in OverallFinancialData,
        l \in OverallLocationData, m \in OverallMarketData}

\* the dates datetime.now() may fall on
Dates == {"2026-11-06", "2026-11-07"}

InitRisk ==
    /\ pc = "call"
    /\ obj = NewRiskAssessor
    /\ all_cash_flows = NoResult
    /\ result = NoResult
    /\ \/ op = "assess_market_risk" /\ args \in MarketData
       \/ op = "assess_location_risk" /\ args \in LocationData
       \/ op = "assess_financial_risk" /\ args \in FinancialData
       \/ op = "assess_property_risk" /\ args \in PropertyData
       \/ op = "get_overall_risk_assessment" /\ args \in OverallCalls

AssessMarketRisk ==
    /\ pc = "call" /\ op = "assess_market_risk"
    /\ result' = assess_market_risk(args)
    /\ pc' = "done"
    /\ UNCHANGED <<op, args, obj, all_cash_flows>>

AssessLocationRisk ==
    /\ pc = "call" /\ op = "assess_location_risk"
    /\ result' = assess_location_risk(args)
    /\ pc' = "done"
    /\ UNCHANGED <<op, args, obj, all_cash_flows>>

AssessFinancialRisk ==
    /\ pc = "call" /\ op = "assess_financial_risk"
    /\ result' = assess_financial_risk(args)
    /\ pc' = "done"
    /\ UNCHANGED <<op, args, obj, all_cash_flows>>

AssessPropertyRisk ==
    /\ pc = "call" /\ op = "assess_property_risk"
    /\ result' = assess_property_risk(args)
    /\ pc' = "done"
    /\ UNCHANGED <<op, args, obj, all_cash_flows>>

OverallRiskAssessment ==
    /\ pc = "call" /\ op = "get_overall_risk_assessment"
    /\ \E today \in Dates :
           result' = get_overall_risk_assessment(args.property_data, args.financial_data,
                                                 args.location_data, args.market_data, today)
    /\ pc' = "done"
    /\ UNCHANGED <<op, args, obj, all_cash_flows>>

NextRisk ==
    \/ AssessMarketRisk
    \/ AssessLocationRisk
    \/ AssessFinancialRisk
    \/ AssessPropertyRisk
    \/ OverallRiskAssessment

SpecRisk == InitRisk /\ [][NextRisk]_vars

(***************************************************************************)
(* A session: one FinancialCalculator and one RiskAssessor, and the calls  *)
(* made on them one after the other, in any order.  obj holds the fields   *)
(* of both objects.                                                        *)
(***************************************************************************)
SessionLoans ==
    {[loan_amount |-> FromInt(1000), interest_rate |-> f_0_06, loan_term_years |-> 1],
     [loan_amount |-> FromInt(300000), interest_rate |-> f_0_06, loan_term_years |-> 2],
     [loan_amount |-> FromInt(1000), interest_rate |-> f_0, loan_term_years |-> 1]}

SessionProjections ==
    {[initial_investment |-> FromInt(20000), annual_income |-> FromInt(12000),
      annual_expenses |-> FromInt(3000), mortgage_payment |-> f_0, years |-> y] :
        y \in {1, 2, 3}}

SessionInvestments ==
    {d \in InvestmentData :
        /\ "down_payment" \in DOMAIN d
        /\ "holding_period_years" \in DOMAIN d
        /\ d.holding_period_years = 3
        /\ d.loan_term_years = 1}

SessionRisks ==
    {<<"assess_market_risk", d>> : d \in OverallMarketData}
    \cup {<<"assess_location_risk", d>> : d \in OverallLocationData}
    \cup {<<"assess_financial_risk", d>> : d \in OverallFinancialData}
    \cup {<<"assess_property_risk", d>> : d \in OverallPropertyData}

\* the assessor method o called with the record data
Assess(o, data) ==
    CASE o = "assess_market_risk" -> assess_market_risk(data)
      [] o = "assess_location_risk" -> assess_location_risk(data)
      [] o = "assess_financial_risk" -> assess_financial_risk(data)
      [] o = "assess_property_risk" -> assess_property_risk(data)

InitSession ==
    /\ pc = "idle"
    /\ op = "__init__"
    /\ args = EmptyDict
    /\ result = NoResult
    /\ obj = [calculator |-> NewCalculator, assessor |-> NewRiskAssessor]
    /\ all_cash_flows = NoResult

SessionAssumptions ==
    \E inflation_rate \in InflationRates, appreciation_rate \in AppreciationRates :
        /\ op' = "set_economic_assumptions"
        /\ args' = [inflation_rate |-> inflation_rate,
                    appreciation_rate |-> appreciation_rate]
        /\ obj' = [obj EXCEPT !.calculator =
                       set_economic_assumptions(obj.calculator, inflation_rate,
                                                appreciation_rate)]
        /\ result' = Return(PyNone)
        /\ all_cash_flows' = NoResult
        /\ pc' = "idle"

SessionPayment ==
    /\ \E c \in SessionLoans :
        /\ op' = "calculate_mortgage_payment"
        /\ args' = c
        /\ result' = calculate_mortgage_payment(c.loan_amount, c.interest_rate,
                                                c.loan_term_years)
    /\ pc' = "done"
    /\ all_cash_flows' = NoResult
    /\ UNCHANGED obj

SessionSchedule ==
    /\ \E c \in SessionLoans :
        /\ op' = "calculate_amortization_schedule"
        /\ args' = c
        /\ result' = calculate_amortization_schedule(c.loan_amount, c.interest_rate,
                                                     c.loan_term_years)
    /\ pc' = "done"
    /\ all_cash_flows' = NoResult
    /\ UNCHANGED obj

SessionProjection ==
    /\ \E c \in SessionProjections :
        /\ op' = "calculate_cash_flow_projection"
        /\ args' = c
        /\ result' = calculate_cash_flow_projection(obj.calculator, c.initial_investment,
                         c.annual_income, c.annual_expenses, c.mortgage_payment, c.years)
    /\ pc' = "done"
    /\ all_cash_flows' = NoResult
    /\ UNCHANGED obj

SessionInvestment ==
    /\ \E np \in {n \in NumPys : n.has_irr}, property_data \in SessionInvestments :
        /\ op' = "analyze_investment"
        /\ args' = [np |-> np, property_data |-> property_data]
        /\ \E analysis \in {analyze_investment(obj.calculator, np, property_data)} :
            /\ result' = analysis.result
            /\ all_cash_flows' = analysis.all_cash_flows
    /\ pc' = "done"
    /\ UNCHANGED obj

SessionRisk ==
    /\ \E c \in SessionRisks :
        /\ op' = c[1]
        /\ args' = c[2]
        /\ result' = Assess(c[1], c[2])
    /\ pc' = "done"
    /\ all_cash_flows' = NoResult
    /\ UNCHANGED obj

NextSession ==
    \/ SessionAssumptions
    \/ SessionPayment
    \/ SessionSchedule
    \/ SessionProjection
    \/ SessionInvestment
    \/ SessionRisk

SpecSession == InitSession /\ [][NextSession]_vars

(***************************************************************************)
(* Requests: independent analysis requests that run on one shared          *)
(* FinancialCalculator at the same time, their steps interleaved.  Here    *)
(* pc, op, args and result are functions of the request; args[r] is the    *)
(* frame of request r, its own arguments and the locals of its loop; obj   *)
(* holds the fields of the shared calculator.  A step of a projection is   *)
(* one statement of the loop body that reads self.inflation_rate.          *)
(***************************************************************************)
Requests == {1, 2}

RequestProjections ==
    {[initial_investment |-> FromInt(20000), annual_income |-> i,
      annual_expenses |-> FromInt(3000), mortgage_payment |-> f_0, years |-> y] :
        i \in {FromInt(12000), FromInt(24000)}, y \in {1, 3}}

RequestValues ==
    {[current_value |-> FromInt(100000), years |-> y, appreciation_rate |-> PyNone] :
        y \in {1, 3}}

\* the fields of self written at any time, requests in flight or not
NoneInFlight_NotKept == TRUE

\* "does not mutate shared configuration mid-flight": no request is between
\* its call and its return when the fields of self are written
NoneInFlight == \A r \in Requests : pc[r] \in {"idle", "done"}

\* the frame at the call: projection = [] and the first year of the range
Frame(c) ==
    [initial_investment |-> c.initial_investment, annual_income |-> c.annual_income,
     annual_expenses |-> c.annual_expenses, mortgage_payment |-> c.mortgage_payment,
     years |-> c.years, projection |-> <<>>, year |-> 1, income |-> PyNone]

\* (1 + self.inflation_rate) ** (year - 1), read from the shared calculator now
Inflation(frame) == Power(FAdd(f_1, obj.inflation_rate), frame.year - 1)

InitRequests ==
    /\ pc = [r \in Requests |-> "idle"]
    /\ op = [r \in Requests |-> "__init__"]
    /\ args = [r \in Requests |-> EmptyDict]
    /\ result = [r \in Requests |-> NoResult]
    /\ obj = NewCalculator
    /\ all_cash_flows = NoResult

\* set_economic_assumptions, called between requests; the requests that
\* have returned are over
RequestsAssumptions ==
    /\ NoneInFlight
    /\ \E inflation_rate \in InflationRates, appreciation_rate \in AppreciationRates :
        obj' = set_economic_assumptions(obj, inflation_rate, appreciation_rate)
    /\ pc' = [r \in Requests |-> IF pc[r] = "done" THEN "idle" ELSE pc[r]]
    /\ op' = [r \in Requests |-> IF pc[r] = "done" THEN "__init__" ELSE op[r]]
    /\ args' = [r \in Requests |-> IF pc[r] = "done" THEN EmptyDict ELSE args[r]]
    /\ result' = [r \in Requests |-> IF pc[r] = "done" THEN NoResult ELSE result[r]]
    /\ UNCHANGED all_cash_flows

\* request r calls calculate_cash_flow_projection
RequestProjection(r) ==
    /\ pc[r] = "idle"
    /\ \E c \in RequestProjections : args' = [args EXCEPT ![r] = Frame(c)]
    /\ op' = [op EXCEPT ![r] = "calculate_cash_flow_projection"]
    /\ pc' = [pc EXCEPT ![r] = "income"]
    /\ UNCHANGED <<result, obj, all_cash_flows>>

\* income = annual_income * ((1 + self.inflation_rate) ** (year - 1))
RequestIncome(r) ==
    /\ pc[r] = "income"
    /\ args[r].year <= args[r].years
    /\ \E pow \in {Inflation(args[r])} :
        IF pow.kind = "raise"
        THEN /\ result' = [result EXCEPT ![r] = pow]
             /\ pc' = [pc EXCEPT ![r] = "done"]
             /\ UNCHANGED args
        ELSE /\ args' = [args EXCEPT ![r].income = FMul(args[r].annual_income, pow.value)]
             /\ pc' = [pc EXCEPT ![r] = "expenses"]
             /\ UNCHANGED result
    /\ UNCHANGED <<op, obj, all_cash_flows>>

\* expenses = annual_expenses * ((1 + self.inflation_rate) ** (year - 1)),
\* and the rest of the loop body, which reads no field of self
RequestExpenses(r) ==
    /\ pc[r] = "expenses"
    /\ \E pow \in {Inflation(args[r])} :
        IF pow.kind = "raise"
        THEN /\ result' = [result EXCEPT ![r] = pow]
             /\ pc' = [pc EXCEPT ![r] = "done"]
             /\ UNCHANGED args
        ELSE /\ args' = [args EXCEPT
                    ![r].projection =
                        ProjectionYear(args[r].projection, args[r].year, args[r].income,
                            FMul(args[r].annual_expenses, pow.value),
                            args[r].mortgage_payment),
                    ![r].year = args[r].year + 1]
             /\ pc' = [pc EXCEPT ![r] = "income"]
             /\ UNCHANGED result
    /\ UNCHANGED <<op, obj, all_cash_flows>>

\* the range is exhausted: return pd.DataFrame(projection)
RequestReturn(r) ==
    /\ pc[r] = "income"
    /\ args[r].year > args[r].years
    /\ result' = [result EXCEPT ![r] = Return(args[r].projection)]
    /\ pc' = [pc EXCEPT ![r] = "done"]
    /\ UNCHANGED <<op, args, obj, all_cash_flows>>

\* request r calls estimate_future_value, which reads self once
RequestFutureValue(r) ==
    /\ pc[r] = "idle"
    /\ \E c \in RequestValues :
        /\ args' = [args EXCEPT ![r] = c]
        /\ result' = [result EXCEPT ![r] =
               estimate_future_value(obj, c.current_value, c.years, c.appreciation_rate)]
    /\ op' = [op EXCEPT ![r] = "estimate_future_value"]
    /\ pc' = [pc EXCEPT ![r] = "done"]
    /\ UNCHANGED <<obj, all_cash_flows>>

NextRequests ==
    \/ RequestsAssumptions
    \/ \E r \in Requests : RequestProjection(r)
    \/ \E r \in Requests : RequestIncome(r)
    \/ \E r \in Requests : RequestExpenses(r)
    \/ \E r \in Requests : RequestReturn(r)
    \/ \E r \in Requests : RequestFutureValue(r)

SpecRequests == InitRequests /\ [][NextRequests]_vars

(***************************************************************************)
(* Properties of the calculator                                            *)
(***************************************************************************)
Called(o) == pc = "done" /\ op = o

LastRow(schedule) == schedule[Len(schedule)]

\* C1: for every loan amount > 0, annual rate >= 0 and term > 0 the
\* amortization schedule has exactly term * 12 entries and the remaining
\* balance of its final entry is at most 0.01.
C1_FullyAmortized ==
    (/\ Called("calculate_amortization_schedule")
     /\ FGt(args.loan_amount, f_0)
     /\ FGe(args.interest_rate, f_0)
     /\ args.loan_term_years > 0)
    => /\ result.kind = "return"
       /\ Len(result.value) = args.loan_term_years * 12
       /\ FLe(LastRow(result.value).RemainingBalance, Dec(1, 100))

\* C2: the mortgage payment fails with the invalid-input error (ValueError,
\* as the ratio metrics raise it) and returns no payment whenever the term
\* is <= 0 or the loan amount is < 0, whatever the rate.
C2_InvalidInputRejected ==
    (/\ Called("calculate_mortgage_payment")
     /\ (args.loan_term_years <= 0 \/ FLt(args.loan_amount, f_0)))
    => result = Raise("ValueError")

\* C3: when the annual rate is 0 and the term is > 0 the mortgage payment
\* returns exactly loan amount / (term * 12); the annuity formula, whose
\* denominator would be zero, is not evaluated, so nothing is raised.
C3_ZeroRatePayment ==
    (/\ Called("calculate_mortgage_payment")
     /\ args.interest_rate = f_0
     /\ args.loan_term_years > 0)
    => result = Return(FDiv(args.loan_amount, FromInt(args.loan_term_years * 12)))

C3_Witness ==
    /\ Called("calculate_mortgage_payment")
    /\ args = [loan_amount |-> FromInt(300000), interest_rate |-> f_0, loan_term_years |-> 3]
    /\ result.kind = "return"
    /\ FGt(result.value, FromInt(8333)) /\ FLt(result.value, FromInt(8334))

\* C4: the cap rate, the loan-to-value ratio and the cash-on-cash return
\* fail with the invalid-input error (ValueError) when their denominator is
\* <= 0, and otherwise return exactly numerator / denominator, also for a
\* negative or zero numerator.
C4_RatioMetrics ==
    (/\ pc = "done"
     /\ op \in {"calculate_cap_rate", "calculate_loan_to_value",
                "calculate_cash_on_cash_return"})
    => IF FLe(args.denominator, f_0)
       THEN result = Raise("ValueError")
       ELSE result = Return(FDiv(args.numerator, args.denominator))

C4_Witness ==
    /\ Called("calculate_cap_rate")
    /\ args = [numerator |-> FromInt(-24000), denominator |-> FromInt(250000)]
    /\ result.kind = "return"
    /\ FLt(result.value, f_0)

(***************************************************************************)
(* Properties of the risk assessor                                         *)
(***************************************************************************)
Returned(o) == Called(o) /\ result.kind = "return"

Assessors ==
    {"assess_market_risk", "assess_location_risk", "assess_financial_risk",
     "assess_property_risk"}

Categories == {"market_risk", "location_risk", "financial_risk", "property_risk"}

InRange(score) == FGe(score, f_0) /\ FLe(score, f_10)

\* C5: every sub-score returned by the four assessors, and the overall
\* weighted score, lies in [0, 10] inclusive, also for extreme and negative
\* inputs.
C5_ScoresInRange ==
    /\ \A o \in Assessors : Returned(o) => InRange(result.value.score)
    /\ Returned("get_overall_risk_assessment")
       => /\ InRange(result.value.overall_score)
          /\ \A c \in Categories : InRange(result.value.risk_breakdown[c].score)

Classified(level, s) ==
    /\ level = "low" <=> FLt(s, FromInt(3))
    /\ level = "medium" <=> (FGe(s, FromInt(3)) /\ FLt(s, FromInt(6)))
    /\ level = "high" <=> (FGe(s, FromInt(6)) /\ FLt(s, FromInt(8)))
    /\ level = "very high" <=> FGe(s, FromInt(8))

\* C6: a score s is 'low' iff s < 3.0, 'medium' iff 3.0 <= s < 6.0, 'high'
\* iff 6.0 <= s < 8.0 and 'very high' iff s >= 8.0, for each of the four
\* category scores and for the overall score.
C6_RiskLevels ==
    /\ \A o \in Assessors :
           Returned(o) => Classified(result.value.assessment, result.value.score)
    /\ Returned("get_overall_risk_assessment")
       => /\ Classified(result.value.risk_level, result.value.overall_score)
          /\ \A c \in Categories :
                 Classified(result.value.risk_breakdown[c].assessment,
                            result.value.risk_breakdown[c].score)

OverallRecommendations ==
    {"Overall low risk profile - consider proceeding with investment",
     "Medium risk profile - proceed with caution and additional due diligence",
     "High risk profile - consider negotiating price or terms to offset risk",
     "Very high risk profile - consider alternative investment opportunities"}

\* the category a fixed recommendation string belongs to, in evaluation
\* order; the strings of no other category are the property's
CategoryRank(r) ==
    IF r \in OverallRecommendations THEN 0
    ELSE IF r \in {"Consider a longer hold period to offset market volatility",
                   "Negotiate purchase price to account for negative market trends"} THEN 1
    ELSE IF r \in {"Budget for enhanced security measures or property management",
                   "Obtain comprehensive flood insurance and consider flood mitigation measures"}
    THEN 2
    ELSE IF r \in {"Reevaluate rental income potential or consider property improvements to increase rent",
                   "Consider increasing down payment to improve debt-to-equity ratio"} THEN 3
    ELSE 4

InCategoryOrder(items) ==
    /\ CategoryRank(items[1]) = 0
    /\ \A i \in 2..Len(items) :
           CategoryRank(items[i]) >= 1 /\ CategoryRank(items[i - 1]) <= CategoryRank(items[i])

\* C7: the recommendations of get_overall_risk_assessment are an ordered
\* list, never absent or empty: exactly one overall-level recommendation
\* first, then the matched recommendations in the order market, location,
\* financial, property.
C7_RecommendationList ==
    Returned("get_overall_risk_assessment")
    => /\ result.value.recommendations.py = "list"
       /\ result.value.recommendations.items # <<>>
       /\ InCategoryOrder(result.value.recommendations.items)

\* the call of C8: a cash flow of -250, every other input absent or at a
\* value that triggers no rule
OnlyCashFlow250 ==
    /\ Returned("assess_financial_risk")
    /\ Get(args, "monthly_cash_flow", f_0) = FromInt(-250)
    /\ FGe(Get(args, "cap_rate", Dec(7, 100)), Dec(5, 100))
    /\ FGe(Get(args, "dscr", Dec(12, 10)), Dec(12, 10))
    /\ FLe(Get(args, "loan_to_value", Dec(7, 10)), Dec(8, 10))
    /\ FLe(Get(args, "vacancy_rate", Dec(5, 100)), Dec(8, 100))

\* C8 as stated: for a monthly cash flow of -250 and no other rule
\* triggered, the negative-cash-flow penalty added to the financial score is
\* 4 and the factor "Negative cash flow" is listed.
C8_PenaltyOfFour ==
    OnlyCashFlow250
    => /\ result.value.score = FromInt(4)
       /\ result.value.factors = <<"Negative cash flow">>

\* C8 as amended: for a monthly cash flow of -250 and no other rule
\* triggered, the negative-cash-flow penalty added to the financial score is
\* min(250/200, 4) = 1.25 and the factor "Negative cash flow" is listed.
C8_PenaltyOfCashFlow ==
    OnlyCashFlow250
    => /\ result.value.score = Dec(125, 100)
       /\ result.value.factors = <<"Negative cash flow">>

C8_Witness ==
    /\ OnlyCashFlow250
    /\ "vacancy_rate" \in DOMAIN args
    /\ result.value.assessment = "low"

\* the condition tier of C9; a missing condition counts as good and the
\* tier is matched without regard to case
ConditionTier(property_data) ==
    CASE "condition" \notin DOMAIN property_data -> f_1
      [] Get(property_data, "condition", "") = "excellent" -> f_0
      [] Get(property_data, "condition", "") = "good" -> f_1
      [] Get(property_data, "condition", "") = "fair" -> Dec(25, 10)
      [] Get(property_data, "condition", "") \in {"poor", "Poor"} -> FromInt(5)
      [] Get(property_data, "condition", "") = "very poor" -> FromInt(7)

AgeTerm(age) ==
    IF FGt(age, FromInt(30))
    THEN FMin(FMul(FSub(age, FromInt(30)), Dec(1, 10)), FromInt(3))
    ELSE f_0

RepairsTerm(property_data, age) ==
    IF Get(property_data, "recent_major_repairs", <<>>) = <<>> /\ FGt(age, FromInt(15))
    THEN Dec(15, 10)
    ELSE f_0

FlagTerm(property_data, flag, penalty) ==
    IF Get(property_data, flag, FALSE) THEN penalty ELSE f_0

PropertySum(property_data, age) ==
    FAdd(FAdd(FAdd(FAdd(AgeTerm(age), ConditionTier(property_data)),
                   FlagTerm(property_data, "is_special_use", FromInt(2))),
              RepairsTerm(property_data, age)),
         FlagTerm(property_data, "has_obsolete_features", f_1))

Clamped(sum) == IF FLt(sum, f_0) THEN f_0 ELSE IF FGt(sum, f_10) THEN f_10 ELSE sum

PoorAndOld == ("condition" :> "poor") @@ ("age" :> FromInt(150))

\* C9: the property risk score is the sum, clamped to [0, 10], of
\* min((age - 30) * 0.1, 3) when age > 30, the condition tier (excellent 0,
\* good 1, fair 2.5, poor 5, very poor 7), 2 for a special-use property, 1.5
\* when there are no recent major repairs and age > 15, and 1 for obsolete
\* features; a poor property of age 150 without repairs scores 9.5, which is
\* 'very high'.
C9_PropertyScore ==
    Returned("assess_property_risk")
    => /\ result.value.score = Clamped(PropertySum(args, Get(args, "age", f_0)))
       /\ args = PoorAndOld
          => result.value.score = Dec(95, 10) /\ result.value.assessment = "very high"

C9_Witness ==
    /\ Returned("assess_property_risk")
    /\ args = PoorAndOld
    /\ Len(result.value.factors) = 3

WeightedSum(breakdown) ==
    FAdd(FAdd(FAdd(FMul(Dec(3, 10), breakdown.market_risk.score),
                   FMul(Dec(3, 10), breakdown.location_risk.score)),
              FMul(Dec(25, 100), breakdown.financial_risk.score)),
         FMul(Dec(15, 100), breakdown.property_risk.score))

\* C10: the overall score equals 0.3 * market + 0.3 * location
\* + 0.25 * financial + 0.15 * property, the four terms being the clamped
\* scores the assessors give for the inputs of the same call, and the sum is
\* not renormalized.
C10_WeightedScore ==
    Returned("get_overall_risk_assessment")
    => /\ result.value.overall_score = WeightedSum(result.value.risk_breakdown)
       /\ result.value.risk_breakdown.market_risk = assess_market_risk(args.market_data).value
       /\ result.value.risk_breakdown.location_risk
              = assess_location_risk(args.location_data).value
       /\ result.value.risk_breakdown.financial_risk
              = assess_financial_risk(args.financial_data).value
       /\ result.value.risk_breakdown.property_risk
              = assess_property_risk(args.property_data).value

C10_Witness ==
    /\ Returned("get_overall_risk_assessment")
    /\ result.value.risk_breakdown.market_risk.score = Dec(25, 10)
    /\ result.value.risk_breakdown.location_risk.score = FromInt(8)
    /\ result.value.risk_breakdown.financial_risk.score = Dec(125, 100)
    /\ result.value.risk_breakdown.property_risk.score = Dec(95, 10)
    /\ FGt(result.value.overall_score, FromInt(4)) /\ FLt(result.value.overall_score, FromInt(5))

(***************************************************************************)
(* The cash-flow projection, the break-even point, the IRR and the sale    *)
(* proceeds of analyze_investment                                          *)
(***************************************************************************)
Projected == Called("calculate_cash_flow_projection")

\* the projection returned is that of args under the given inflation rate
ProjectedWith(inflation_rate) ==
    /\ result.kind = "return"
    /\ Len(result.value) = args.years
    /\ \A y \in 1..args.years :
        /\ result.value[y].Year = y
        /\ result.value[y].Income =
               FMul(args.annual_income, FPow(FAdd(f_1, inflation_rate), y - 1))
        /\ result.value[y].Expenses =
               FMul(args.annual_expenses, FPow(FAdd(f_1, inflation_rate), y - 1))
        /\ y = 1 => /\ result.value[y].Income = args.annual_income
                    /\ result.value[y].Expenses = args.annual_expenses
        /\ result.value[y].MortgagePayment = args.mortgage_payment
        /\ result.value[y].NOI =
               FSub(result.value[y].Income, result.value[y].Expenses)
        /\ result.value[y].CashFlow =
               FSub(result.value[y].NOI, result.value[y].MortgagePayment)

\* a step that is a call of set_economic_assumptions with an inflation rate
InflationSupplied == op' = "set_economic_assumptions" /\ args'.inflation_rate # PyNone

\* C14: the projection has one entry per year 1..years in ascending order;
\* income and expenses of year y are the first-year values times
\* (1 + inflation rate) ^ (y - 1), so year 1 is uninflated; the mortgage
\* payment is the same in every entry, NOI = income - expenses and cash
\* flow = NOI - mortgage payment.  The inflation rate is the calculator's
\* setting at the time of the call: 0.02 on a new calculator, and changed
\* only by a call of set_economic_assumptions that supplies a rate, to
\* that rate.
C14_InflatedProjection ==
    /\ [](op = "__init__" => obj.inflation_rate = Dec(2, 100))
    /\ [][obj'.inflation_rate = IF InflationSupplied THEN args'.inflation_rate
                                ELSE obj.inflation_rate]_vars
    /\ [](Projected => ProjectedWith(obj.inflation_rate))

C14_Witness ==
    /\ Projected
    /\ obj.inflation_rate = Dec(5, 100)
    /\ args.years = 3
    /\ args.annual_income = FromInt(12000)
    /\ result.value[3].Income = Dec(13230, 1)

\* the sum, in sequence order, of the cash flows of entries 1..y
RECURSIVE SumOfCashFlows(_, _)
SumOfCashFlows(projection, y) ==
    IF y = 1 THEN projection[1].CashFlow
    ELSE FAdd(SumOfCashFlows(projection, y - 1), projection[y].CashFlow)

\* C15: in every cash-flow projection the cumulative cash flow of entry y
\* is the sum of the cash flows of entries 1..y (entry 1's cumulative is
\* its own cash flow), and the projection has exactly `years` entries.
C15_CumulativeCashFlow ==
    Projected
    => /\ result.kind = "return"
       /\ Len(result.value) = args.years
       /\ \A y \in 1..Len(result.value) :
            result.value[y].CumulativeCashFlow = SumOfCashFlows(result.value, y)

C15_Witness ==
    /\ Projected
    /\ args.years = MaxYears
    /\ result.value[1].CashFlow = FromInt(9000)
    /\ FGt(result.value[MaxYears].CumulativeCashFlow, FromInt(36000))

MonthlyNet == FSub(args.monthly_income, args.monthly_expenses)

\* C16: the break-even point is the 'infinite' sentinel (float inf),
\* returned and not raised, whenever monthly income - monthly expenses <= 0,
\* exactly zero net included, and purchase price / (monthly income -
\* monthly expenses) otherwise; income 1000 and expenses 1200 give inf.
C16_BreakEvenPoint ==
    Called("calculate_break_even_point")
    => /\ FLe(MonthlyNet, f_0) => result = Return(FInf(1))
       /\ FGt(MonthlyNet, f_0) => result = Return(FDiv(args.purchase_price, MonthlyNet))
       /\ (args.monthly_income = FromInt(1000) /\ args.monthly_expenses = FromInt(1200))
              => result = Return(FInf(1))

C16_Witness ==
    /\ Called("calculate_break_even_point")
    /\ args.monthly_income = FromInt(1200)
    /\ args.monthly_expenses = FromInt(1200)
    /\ result = Return(FInf(1))

\* the 'undefined' outcomes of calculate_irr: None, and the nan of np.irr
Undefined(v) == v = PyNone \/ v = FNaN

C17_WitnessNoRoot ==
    /\ Called("calculate_irr")
    /\ args.np.has_irr
    /\ ~HasSignChange(all_cash_flows)
    /\ Len(all_cash_flows) = 3

\* the sale at the end of the holding period, as the claim states it: the
\* last cash flow given to the IRR is the last projected cash flow plus the
\* future value less the remaining balance of the schedule's entry number
\* entry less the down payment
SaleUses(v, schedule, years, entry) ==
    /\ entry \in 1..Len(schedule)
    /\ Len(all_cash_flows) = years + 1
    /\ all_cash_flows[years + 1] =
           FAdd(result.value.cash_flow_projection[years].CashFlow,
                FSub(FSub(result.value.future_value, schedule[entry].RemainingBalance),
                     v.down_payment))

Sold == Called("analyze_investment") /\ "holding_period_years" \in DOMAIN args.property_data

\* C18: in analyze_investment with a holding period of H years and a loan
\* term of T years the loan balance used for the sale proceeds is the
\* remaining balance of amortization entry number min(H*12, T*12): entry
\* H*12 when the holding period fits in the loan term, the last entry T*12
\* when it does not; the lookup never reads past the end of the schedule.
C18_BalanceAtSale ==
    /\ Called("analyze_investment") => result # Raise("IndexError")
    /\ (Sold /\ result.kind = "return")
       => SaleUses(AnalysisInputs(args.property_data),
                   calculate_amortization_schedule(
                       AnalysisInputs(args.property_data).loan_amount,
                       AnalysisInputs(args.property_data).interest_rate,
                       AnalysisInputs(args.property_data).loan_term).value,
                   args.property_data.holding_period_years,
                   Min(args.property_data.holding_period_years * 12,
                       args.property_data.loan_term_years * 12))

C18_Witness ==
    /\ Sold /\ result.kind = "return"
    /\ args.property_data.holding_period_years = 3
    /\ args.property_data.loan_term_years = 2
    /\ Len(all_cash_flows) = 4

C18_WitnessWithinTerm ==
    /\ Sold /\ result.kind = "return"
    /\ args.property_data.holding_period_years = 1
    /\ args.property_data.loan_term_years = 2
    /\ "interest_rate" \notin DOMAIN args.property_data

(***************************************************************************)
(* The property score, the feature scores and the market comparison        *)
(***************************************************************************)
Scored == Called("calculate_property_score")

ScoresInRange(feature_scores) ==
    \A i \in DOMAIN feature_scores :
        FGe(feature_scores[i][2], f_0) /\ FLe(feature_scores[i][2], f_10)

\* C11: calculate_property_score returns a score in [0, 10] for every
\* feature score set whose scores all lie in [0, 10], whether it holds all
\* eight known features or a strict subset of them.
C11_ScoreInRange ==
    (Scored /\ ScoresInRange(args.feature_scores))
    => FGe(result.value, f_0) /\ FLe(result.value, f_10)

\* the known features of a feature score set
Known(feature_scores) == Keys(feature_scores) \cap FeatureNames

\* sum of score * weight and sum of weight over the known features among
\* the first n items
RECURSIVE WeightedScores(_, _)
WeightedScores(feature_scores, n) ==
    IF n = 0 THEN f_0
    ELSE IF feature_scores[n][1] \notin FeatureNames
    THEN WeightedScores(feature_scores, n - 1)
    ELSE FAdd(WeightedScores(feature_scores, n - 1),
              FMul(feature_scores[n][2], Value(feature_weights, feature_scores[n][1])))

RECURSIVE WeightsUsed(_, _)
WeightsUsed(feature_scores, n) ==
    IF n = 0 THEN f_0
    ELSE IF feature_scores[n][1] \notin FeatureNames
    THEN WeightsUsed(feature_scores, n - 1)
    ELSE FAdd(WeightsUsed(feature_scores, n - 1),
              Value(feature_weights, feature_scores[n][1]))

WeightedAverage(feature_scores) ==
    FDiv(WeightedScores(feature_scores, Len(feature_scores)),
         WeightsUsed(feature_scores, Len(feature_scores)))

FullScoreSets == {fs \in FeatureScoreSets : Known(fs) = FeatureNames}

\* C12: scoring a set with a strict subset of the features gives the same
\* overall score as scoring a full set, whenever the weighted average of
\* the subset's scores equals the full set's weighted average.
C12_SubsetScoredAsFull ==
    (Scored /\ Known(args.feature_scores) # {} /\ Known(args.feature_scores) # FeatureNames)
    => \A full \in FullScoreSets :
           WeightedAverage(full) = WeightedAverage(args.feature_scores)
           => result.value = calculate_property_score(obj, full)

Evaluated == Called("evaluate_features")

\* the attributes of the property record a feature is derived from
FeatureInputs(feature) ==
    CASE feature = "location" ->
             {"location_rating"} \cup {location_factors[i][1] : i \in DOMAIN location_factors}
      [] feature = "condition" -> {"condition"}
      [] feature = "size" -> {"square_footage"}
      [] feature = "age" -> {"year_built"}
      [] feature = "amenities" -> {"amenities"}
      [] feature = "schools" -> {"school_rating"}
      [] feature = "crime_rate" -> {"crime_rate"}
      [] feature = "future_development" -> {"future_development_rating"}

HasInputs(feature) == FeatureInputs(feature) \cap DOMAIN args.property_data # {}

\* C13 as stated: a feature is in the returned set only when an attribute
\* it is derived from is present in the property record, for every one of
\* the eight features, location included.
C13_OnlyFromInputs ==
    Evaluated
    => /\ Keys(result.value) \subseteq FeatureNames
       /\ \A feature \in Keys(result.value) : HasInputs(feature)

\* C13 amended: each of the seven features other than location is in the
\* returned set exactly when the attribute it is derived from is present;
\* location is always in the set, with the location rating when it is
\* given and the computed location score otherwise, which is the default
\* 5.0 when no location factor is present either.
C13_OnlyFromInputsButLocation ==
    Evaluated
    => /\ Keys(result.value) \subseteq FeatureNames
       /\ \A feature \in FeatureNames \ {"location"} :
              feature \in Keys(result.value) <=> HasInputs(feature)
       /\ "location" \in Keys(result.value)
       /\ "location_rating" \in DOMAIN args.property_data
              => Value(result.value, "location") = args.property_data.location_rating
       /\ ~HasInputs("location") => Value(result.value, "location") = FromInt(5)

C13_Witness ==
    /\ Evaluated
    /\ DOMAIN args.property_data = {"square_footage", "crime_rate"}
    /\ result.value = << <<"location", FromInt(5)>>, <<"size", FromInt(2)>>,
                         <<"crime_rate", FromInt(8)>> >>

Searched == Called("_get_comparable_properties") /\ obj.market_data # PyNone

\* C19: whenever fewer than 5 rows remain after the zip-code /
\* property-type / size filter and the property record has a neighborhood
\* (and the dataset a neighborhood column), the comparable set is all
\* market rows of the same neighborhood, whether or not the record has a
\* zip code.
C19_BroadenedToNeighborhood ==
    (/\ Searched
     /\ Len(Narrowed(obj, args.property_data)) < 5
     /\ "neighborhood" \in DOMAIN args.property_data
     /\ "neighborhood" \in obj.market_data.columns)
    => result.value = RowsEqual(obj.market_data.rows, "neighborhood",
                                args.property_data.neighborhood)

\* no market data is set, or no comparable property is found
Unavailable ==
    obj.market_data = PyNone \/ get_comparable_properties(obj, args.property_data) = <<>>

Explanation ==
    IF obj.market_data = PyNone
    THEN [error |-> "No market data available for comparison"]
    ELSE [error |-> "No comparable properties found in market data"]

C20_WitnessNoData ==
    /\ Called("compare_to_market")
    /\ obj.market_data = PyNone
    /\ op = "compare_to_market"
    /\ result.value = Explanation

(***************************************************************************)
(* The amortization recurrence                                             *)
(***************************************************************************)
\* balance_i of the recurrence: the loan amount less the principal of the
\* entries 1..i
RECURSIVE RunningBalance(_, _, _)
RunningBalance(schedule, loan_amount, i) ==
    IF i = 0 THEN loan_amount
    ELSE FSub(RunningBalance(schedule, loan_amount, i - 1), schedule[i].Principal)

\* entry i follows from the balance before it
EntryFollows(entry, i, balance, monthly_rate, payment) ==
    /\ entry.Payment = i
    /\ entry.PaymentAmount = payment
    /\ entry.Interest = FMul(balance, monthly_rate)
    /\ entry.Principal = FSub(payment, entry.Interest)
    /\ entry.RemainingBalance = FMax(f_0, FSub(balance, entry.Principal))
    /\ FGe(entry.RemainingBalance, f_0)

Scheduled == Called("calculate_amortization_schedule") /\ result.kind = "return"

\* every entry of the returned schedule follows from the balance before it
Recurrence ==
    \A i \in DOMAIN result.value :
        EntryFollows(result.value[i], i,
                     RunningBalance(result.value, args.loan_amount, i - 1),
                     FDiv(args.interest_rate, f_12),
                     calculate_mortgage_payment(args.loan_amount, args.interest_rate,
                                                args.loan_term_years).value)

\* principal + interest, as floats, less the payment amount
SumError(entry) == FAbs(FSub(FAdd(entry.Principal, entry.Interest), entry.PaymentAmount))

\* C22 as stated: with balance_0 the loan amount, entry i of a schedule has
\* payment index i, the payment amount of every other entry, interest
\* balance_{i-1} * monthly rate, principal payment - interest, so that
\* principal + interest = payment, and the recorded remaining balance
\* max(0, balance_{i-1} - principal); no recorded balance is negative.
C22_RecurrenceExactSum ==
    Scheduled =>
        /\ Recurrence
        /\ \A i \in DOMAIN result.value : SumError(result.value[i]) = f_0

\* C22 amended: the recurrence holds as stated, with float operations, and
\* principal + interest equals the payment up to the rounding of the
\* subtraction and the addition: a relative difference of at most 2^-51.
C22_AmortizationRecurrence ==
    Scheduled =>
        /\ Recurrence
        /\ \A i \in DOMAIN result.value :
            FLe(SumError(result.value[i]),
                FMul(Pow2(1, -51), FAbs(result.value[i].PaymentAmount)))

C22_Witness ==
    /\ Scheduled
    /\ args = [loan_amount |-> FromInt(300000), interest_rate |-> f_0_06,
               loan_term_years |-> 5]
    /\ Len(result.value) = 60
    /\ result.value[1].Interest = FromInt(1500)
    /\ result.value[2].Interest = FMul(FSub(FromInt(300000), result.value[1].Principal),
                                       Dec(5, 1000))

\* an entry whose balance fell below zero and is recorded as 0
C22_WitnessFloored ==
    /\ Scheduled
    /\ \E i \in DOMAIN result.value :
        /\ FLt(RunningBalance(result.value, args.loan_amount, i), f_0)
        /\ result.value[i].RemainingBalance = f_0

(***************************************************************************)
(* The formula of the property score                                       *)
(***************************************************************************)
\* the items of feature_scores whose feature has a configured weight
PresentKnown(feature_scores, weights) ==
    SelectSeq(feature_scores, LAMBDA item : item[1] \in Keys(weights))

\* sum of score * weight, and sum of weight, over the first n items
RECURSIVE SumProducts(_, _, _)
SumProducts(items, weights, n) ==
    IF n = 0 THEN f_0
    ELSE FAdd(SumProducts(items, weights, n - 1),
              FMul(items[n][2], Value(weights, items[n][1])))

RECURSIVE SumWeights(_, _, _)
SumWeights(items, weights, n) ==
    IF n = 0 THEN f_0
    ELSE FAdd(SumWeights(items, weights, n - 1), Value(weights, items[n][1]))

\* (sum of score * weight / W_used) * (W_all / W_used), and 0 when no
\* known feature is present
Rescaled(products, w_used, w_all) ==
    IF w_used = f_0 THEN f_0 ELSE FMul(FDiv(products, w_used), FDiv(w_all, w_used))

ScoreFormula(items, weights) ==
    Rescaled(SumProducts(items, weights, Len(items)),
             SumWeights(items, weights, Len(items)),
             SumValues(weights, Len(weights)))

\* C23 as stated: calculate_property_score equals (sum over the present
\* known features of score * weight / W_used) * (W_all / W_used), features
\* outside the vocabulary ignored, and 0 for an empty or all-unknown set.
C23_ScoreFormula ==
    Scored => result.value =
                  ScoreFormula(PresentKnown(args.feature_scores, obj.feature_weights),
                               obj.feature_weights)

\* C23 amended: calculate_property_score equals that value rounded to two
\* decimal places.
C23_ScoreFormulaRounded ==
    Scored => result.value =
                  Round2(ScoreFormula(PresentKnown(args.feature_scores, obj.feature_weights),
                                      obj.feature_weights))

\* weights 0.5 and 0.505 are kept, so W_all = 1.005: condition 7 alone
\* scores 7 * 1.005 / 0.505 = 13.93 (13.9306... before rounding)
C23_Witness ==
    /\ Scored
    /\ obj.feature_weights =
           << <<"location", Dec(5, 10)>>, <<"condition", Dec(505, 1000)>> >>
    /\ args.feature_scores = << <<"condition", FromInt(7)>> >>
    /\ result.value = Dec(1393, 100)

\* a feature outside the vocabulary is ignored, alone or with others
C23_WitnessUnknown ==
    /\ Scored
    /\ obj.feature_weights = feature_weights
    /\ args.feature_scores = << <<"location", FromInt(10)>>, <<"garage", FromInt(10)>> >>
    /\ result.value = FromInt(40)

(***************************************************************************)
(* The cash-flow rules of the financial risk                               *)
(***************************************************************************)
AssessedFinancial == Called("assess_financial_risk") /\ result.kind = "return"

MonthlyCashFlow(financial_data) == Get(financial_data, "monthly_cash_flow", f_0)

\* the two cash-flow rules, each applied whenever its own threshold is met
NegativeCashFlowRule(st, monthly_cash_flow) ==
    IF FLt(monthly_cash_flow, f_0)
    THEN Penalty(st, FMin(FDiv(FAbs(monthly_cash_flow), FromInt(200)), FromInt(4)),
                 "Negative cash flow")
    ELSE st

LowCashFlowRule(st, monthly_cash_flow) ==
    IF FLt(monthly_cash_flow, FromInt(200))
    THEN Penalty(st, FromInt(2), "Low cash flow margin")
    ELSE st

\* the four other rules applied to the running total st
OtherFinancialRules(st, financial_data) ==
    FinancialVacancy(FinancialLtv(FinancialDscr(FinancialCapRate(st,
        Get(financial_data, "cap_rate", f_0_07)),
        Get(financial_data, "dscr", f_1_2)),
        Get(financial_data, "loan_to_value", f_0_7)),
        Get(financial_data, "vacancy_rate", f_0_05))

\* C24: for every monthly cash flow below 200, negative values included,
\* the financial total contains the +2 of the low-cash-flow rule (and the
\* assessment lists its factor), independently of the other penalties; the
\* score is that total clamped.
C24_LowCashFlowPenalty ==
    (AssessedFinancial /\ FLt(MonthlyCashFlow(args), FromInt(200)))
    => result.value =
           Assessed(OtherFinancialRules(
               LowCashFlowRule(NegativeCashFlowRule(NoRisk, MonthlyCashFlow(args)),
                               MonthlyCashFlow(args)),
               args))

\* the monthly cash flows a call is compared with
ComparedCashFlows ==
    {FromInt(-1000), FromInt(-250), FromInt(-1), f_0, FromInt(100), FromInt(200),
     FromInt(500)}

\* C27: with every other financial input as in the call, a higher monthly
\* cash flow never yields a higher financial risk score.
C27_MonotonicInCashFlow ==
    AssessedFinancial =>
        \A higher \in ComparedCashFlows :
            FGt(higher, MonthlyCashFlow(args))
            => FLe(assess_financial_risk(
                       [k \in DOMAIN args \cup {"monthly_cash_flow"} |->
                           IF k = "monthly_cash_flow" THEN higher ELSE args[k]]).value.score,
                   result.value.score)

(***************************************************************************)
(* The factor lists of the risk categories                                 *)
(***************************************************************************)
\* each rule of a category applied on its own to the inputs of the call:
\* the penalty it adds and the factors it lists
RulesOf(o, data) ==
    CASE o = "assess_market_risk" ->
             {MarketVolatility(NoRisk, data), MarketTrend(NoRisk, data),
              MarketInventory(NoRisk, data), MarketUnemployment(NoRisk, data)}
      [] o = "assess_location_risk" ->
             {LocationCrime(NoRisk, data), LocationFlood(NoRisk, data),
              LocationSchool(NoRisk, data), LocationJobs(NoRisk, data),
              LocationTax(NoRisk, data)}
      [] o = "assess_financial_risk" ->
             {FinancialCashFlow(NoRisk, Get(data, "monthly_cash_flow", f_0)),
              FinancialCapRate(NoRisk, Get(data, "cap_rate", f_0_07)),
              FinancialDscr(NoRisk, Get(data, "dscr", f_1_2)),
              FinancialLtv(NoRisk, Get(data, "loan_to_value", f_0_7)),
              FinancialVacancy(NoRisk, Get(data, "vacancy_rate", f_0_05))}
      [] o = "assess_property_risk" ->
             {PropertyAge(NoRisk, Get(data, "age", f_0)),
              PropertyCondition(NoRisk, Lower(Get(data, "condition", "good"))),
              PropertySpecialUse(NoRisk, data),
              PropertyRepairs(NoRisk, Get(data, "recent_major_repairs", <<>>),
                              Get(data, "age", f_0)),
              PropertyObsolete(NoRisk, data)}

\* C28: in each of the four risk categories a factor list that is empty
\* comes with the score 0, and every factor listed belongs to a rule that
\* contributed a non-zero penalty (an empty input record and a flood risk
\* outside the known tiers included).
C28_FactorsAccountForScore ==
    \A o \in Assessors :
        Returned(o) =>
            /\ result.value.factors = <<>> => result.value.score = f_0
            /\ \A rule \in RulesOf(o, args) :
                   /\ rule.risk_factors # <<>> => rule.risk_score # f_0
                   /\ \A i \in DOMAIN rule.risk_factors :
                          \E j \in DOMAIN result.value.factors :
                              result.value.factors[j] = rule.risk_factors[i]
            /\ \A j \in DOMAIN result.value.factors :
                   \E rule \in RulesOf(o, args) :
                       \E i \in DOMAIN rule.risk_factors :
                           rule.risk_factors[i] = result.value.factors[j]

(***************************************************************************)
(* The crime rule of the location risk                                     *)
(***************************************************************************)
\* C29: assess_location_risk returns a score, a factor list and a level,
\* and never raises, for every numeric crime_rate and avg_city_crime_rate:
\* also for an average given as 0 with a positive crime rate, and for an
\* average that is absent.
C29_LocationNeverRaises ==
    Called("assess_location_risk")
    => /\ result.kind = "return"
       /\ DOMAIN result.value = {"score", "factors", "assessment"}
       /\ result.value.assessment \in {"low", "medium", "high", "very high"}

(***************************************************************************)
(* The comparable properties after the search is broadened                 *)
(***************************************************************************)
NotFound == Return([error |-> "No comparable properties found in market data"])

\* C30: the set returned by the comparable-property search is never
\* smaller than the set that matched the zip-code / property-type / size
\* filter, so a property with 1 to 4 narrow matches is never reported as
\* having no comparable properties.
C30_BroadeningKeepsComparables ==
    /\ Searched => Len(result.value) >= Len(Narrowed(obj, args.property_data))
    /\ (/\ Called("compare_to_market")
        /\ obj.market_data # PyNone
        /\ Len(Narrowed(obj, args.property_data)) \in 1..4)
       => result # NotFound

(***************************************************************************)
(* The series analyze_investment hands to the IRR                          *)
(***************************************************************************)
\* the final year of the series: the projected cash flow plus the equity at
\* sale less the down payment
FinalYear(cash_flow, future_value, remaining_balance, down_payment) ==
    FAdd(cash_flow, FSub(FSub(future_value, remaining_balance), down_payment))

\* the series for a projection of the given years: the down payment as the
\* initial investment, then the yearly cash flows, the last one changed
IrrSeries(v, projection, years, future_value, remaining_balance) ==
    <<FNeg(v.down_payment)>> \o
    [y \in 1..years |->
        IF y < years THEN projection[y].CashFlow
        ELSE FinalYear(projection[y].CashFlow, future_value, remaining_balance,
                       v.down_payment)]

\* the remaining balance of the schedule entry the sale falls on
BalanceAtSale(v, years) ==
    calculate_amortization_schedule(v.loan_amount, v.interest_rate, v.loan_term)
        .value[Min(years * 12, v.loan_term * 12)].RemainingBalance

SeriesOf(v, years, future_value) ==
    /\ result.value.future_value = future_value
    /\ Len(result.value.cash_flow_projection) = years
    /\ result.value.cash_flow_projection =
           calculate_cash_flow_projection(obj, v.down_payment, v.annual_income,
               v.annual_expenses, result.value.annual_mortgage, years).value
    /\ all_cash_flows = IrrSeries(v, result.value.cash_flow_projection, years,
                                  future_value, BalanceAtSale(v, years))
    /\ result.value.irr = calculate_irr(args.np, v.down_payment,
                                        SubSeq(all_cash_flows, 2, years + 1)).value

\* C25: in analyze_investment with a holding period the series passed to
\* the IRR is the projection's yearly cash flows with only the final year
\* changed, to final + (future value - remaining loan balance) - down
\* payment, where future value = property value * (1 + appreciation rate)
\* ^ years; the initial investment passed is the down payment.
C25_IrrSeries ==
    (Sold /\ result.kind = "return")
    => SeriesOf(AnalysisInputs(args.property_data),
                args.property_data.holding_period_years,
                FMul(AnalysisInputs(args.property_data).property_value,
                     FPow(FAdd(f_1, obj.property_appreciation_rate),
                          args.property_data.holding_period_years)))

\* three years at an appreciation rate set to 5%: 100000 * 1.05^3
C25_Witness ==
    /\ Sold /\ result.kind = "return"
    /\ obj.property_appreciation_rate = Dec(5, 100)
    /\ args.property_data.holding_period_years = 3
    /\ FGt(result.value.future_value, FromInt(115762))
    /\ FLt(result.value.future_value, FromInt(115763))
    /\ Len(all_cash_flows) = 4
    /\ all_cash_flows[1] = FromInt(-20000)
    /\ all_cash_flows[2] = result.value.cash_flow_projection[1].CashFlow
    /\ all_cash_flows[3] = result.value.cash_flow_projection[2].CashFlow
    /\ FGt(all_cash_flows[4], result.value.cash_flow_projection[3].CashFlow)

(***************************************************************************)
(* No hidden state                                                         *)
(***************************************************************************)
\* a step is a call of set_economic_assumptions
AssumptionsSet == op' = "set_economic_assumptions" /\ pc' = "idle"

\* the rate after the call: the one given, the one held if None was given
RateAfter(given, held) == IF given # PyNone THEN given ELSE held

\* only the calculator's rates change, each only if it is given
OnlyGivenRates ==
    /\ obj'.assessor = obj.assessor
    /\ obj'.calculator =
           [inflation_rate |-> RateAfter(args'.inflation_rate, obj.calculator.inflation_rate),
            property_appreciation_rate |->
                RateAfter(args'.appreciation_rate, obj.calculator.property_appreciation_rate)]

ScheduleCall(c) == Called("calculate_amortization_schedule") /\ args = c

\* the schedules of the session
SessionSchedules ==
    {calculate_amortization_schedule(c.loan_amount, c.interest_rate, c.loan_term_years) :
        c \in SessionLoans}

Alone(r) ==
    IF op[r] = "estimate_future_value"
    THEN estimate_future_value(obj, args[r].current_value, args[r].years,
                               args[r].appreciation_rate)
    ELSE calculate_cash_flow_projection(obj, args[r].initial_investment,
             args[r].annual_income, args[r].annual_expenses,
             args[r].mortgage_payment, args[r].years)

====
